---------------------------- MODULE Spec2Model ----------------------------
(***************************************************************************)
(* Model of the blog platform's content-write workflow, comment threading  *)
(* and visibility rules (routes/dashboard.js, routes/blog.js,              *)
(* generate-sitemap.js and the relational schema).                         *)
(*                                                                         *)
(* Text values (titles, slugs, tag names, payload entries) are sequences   *)
(* of one-character strings so that lowercasing, trimming, slug derivation *)
(* and parseInt are computed the way the code computes them.               *)
(***************************************************************************)
EXTENDS Integers, Sequences, FiniteSets, TLC

VARIABLES
    Posts,            \* table Posts: set of rows
    Categories,       \* table Categories: set of rows
    Tags,             \* table Tags: set of rows
    Post_Categories,  \* table Post_Categories: set of <<post_id, category_id>>
    Post_Tags,        \* table Post_Tags: set of <<post_id, tag_id>>
    Comments,         \* table Comments: set of rows
    posts_id_seq,     \* last value handed out by the Posts id sequence
    tags_id_seq,      \* last value handed out by the Tags id sequence
    categories_id_seq, \* last value handed out by the Categories id sequence
    comments_id_seq,  \* last value handed out by the Comments id sequence
    inflight,         \* comment submissions between two of their statements
    last              \* the last request handled and the response it got

vars == <<Posts, Categories, Tags, Post_Categories, Post_Tags, Comments,
          posts_id_seq, tags_id_seq, categories_id_seq, comments_id_seq,
          inflight, last>>

-----------------------------------------------------------------------------
(* Bounds of the model.                                                    *)

\* Largest id the Posts sequence may hand out.
MaxPostId == 2
\* Largest id the Comments sequence may hand out.
MaxCommentId == 2
\* Number of Tag rows that may be created on top of the default ones.
MaxNewTags == 2
\* Statements of one transaction at which a storage failure may be injected.
MaxFail == 8
\* Comment submissions that may be in flight at once.
MaxInFlight == 1
\* Longest title whose slug is derived on its own.
MaxTitleLen == 4
\* Number of Category rows that may be created on top of the default ones.
MaxNewCategories == 2
\* Category requests that may be in flight at once.
MaxCategoryRequests == 2

-----------------------------------------------------------------------------
(* Text helpers.                                                           *)

UpperChars == <<"A","B","C","D","E","F","G","H","I","J","K","L","M",
                "N","O","P","Q","R","S","T","U","V","W","X","Y","Z">>
LowerChars == <<"a","b","c","d","e","f","g","h","i","j","k","l","m",
                "n","o","p","q","r","s","t","u","v","w","x","y","z">>
DigitChars == <<"0","1","2","3","4","5","6","7","8","9">>
Whitespace == {" ", "\t", "\n"}

Range(s) == {s[i] : i \in DOMAIN s}

IndexOf(s, c) == CHOOSE i \in DOMAIN s : s[i] = c

UpperSet == Range(UpperChars)
DigitSet == Range(DigitChars)
SlugCharSet == Range(LowerChars) \cup DigitSet

\* The lowercase letter of each uppercase letter.
LowerOf == [c \in UpperSet |-> LowerChars[IndexOf(UpperChars, c)]]

\* The value of each digit.
DigitOf == [c \in DigitSet |-> IndexOf(DigitChars, c) - 1]

\* String.prototype.toLowerCase on one character (ASCII).
LowerChar(c) == IF c \in UpperSet THEN LowerOf[c] ELSE c

\* String.prototype.toLowerCase.
toLowerCase(s) == [i \in DOMAIN s |-> LowerChar(s[i])]

RECURSIVE TrimStart(_)
TrimStart(s) ==
    IF s # <<>> /\ Head(s) \in Whitespace THEN TrimStart(Tail(s)) ELSE s

RECURSIVE TrimEnd(_)
TrimEnd(s) ==
    IF s # <<>> /\ s[Len(s)] \in Whitespace
    THEN TrimEnd(SubSeq(s, 1, Len(s) - 1))
    ELSE s

\* String.prototype.trim.
trim(s) == TrimEnd(TrimStart(s))

IsSlugChar(c) == c \in SlugCharSet

\* .replace(/[^a-z0-9]+/g, '-'): every maximal run of other characters
\* becomes one hyphen.
RECURSIVE ReplaceRuns(_, _)
ReplaceRuns(s, inRun) ==
    IF s = <<>> THEN <<>>
    ELSE IF IsSlugChar(Head(s)) THEN <<Head(s)>> \o ReplaceRuns(Tail(s), FALSE)
    ELSE IF inRun THEN ReplaceRuns(Tail(s), TRUE)
    ELSE <<"-">> \o ReplaceRuns(Tail(s), TRUE)

\* .replace(/^-|-$/g, ''): one leading and one trailing hyphen are removed.
\* Faulty variant: only the leading hyphen is removed.
StripLeadingHyphen(s) == IF s # <<>> /\ Head(s) = "-" THEN Tail(s) ELSE s

StripHyphens(s) ==
    LET a == IF s # <<>> /\ Head(s) = "-" THEN Tail(s) ELSE s
    IN  IF a # <<>> /\ a[Len(a)] = "-" THEN SubSeq(a, 1, Len(a) - 1) ELSE a

\* title.toLowerCase().replace(/[^a-z0-9]+/g, '-').replace(/^-|-$/g, '')
Slugify(title) == StripHyphens(ReplaceRuns(toLowerCase(title), FALSE))

\* The value parseInt gives for text that does not start with a number.
NaN == -1

RECURSIVE DigitPrefix(_)
DigitPrefix(s) ==
    IF s # <<>> /\ Head(s) \in DigitSet
    THEN <<Head(s)>> \o DigitPrefix(Tail(s))
    ELSE <<>>

RECURSIVE DigitsValue(_)
DigitsValue(d) ==
    IF d = <<>> THEN 0
    ELSE 10 * DigitsValue(SubSeq(d, 1, Len(d) - 1)) + DigitOf[d[Len(d)]]

\* parseInt(text, 10) for unsigned text: leading whitespace is skipped, the
\* longest digit prefix is read, anything after it is ignored.
parseInt(text) ==
    LET d == DigitPrefix(TrimStart(text))
    IN  IF d = <<>> THEN NaN ELSE DigitsValue(d)

\* The value PostgreSQL reads from a text parameter compared with or stored
\* in an INTEGER column, for unsigned text of a few characters: [ok, value];
\* text that is no integer raises an error.
PgInteger(text) ==
    IF text # <<>> /\ DigitPrefix(text) = text
    THEN [ok |-> TRUE, value |-> DigitsValue(text)]
    ELSE [ok |-> FALSE, value |-> -1]

RECURSIVE SeqFilterMap(_)
\* categoryIds.map(id => parseInt(id, 10)).filter(id => !isNaN(id))
SeqFilterMap(items) ==
    IF items = <<>> THEN <<>>
    ELSE LET v == parseInt(Head(items))
         IN  IF v = NaN THEN SeqFilterMap(Tail(items))
             ELSE <<v>> \o SeqFilterMap(Tail(items))

-----------------------------------------------------------------------------
(* The relational schema and the statements the handlers issue.  A database *)
(* value is a record of the tables and sequences; a statement gives         *)
(* [ok, db, ret]: ok is FALSE when the statement raises an error            *)
(* (a violated constraint), ret is what the handler reads from the result.  *)

\* SQL NULL in an integer column (ids start at 1).
NULL == 0

DB == [Posts |-> Posts, Categories |-> Categories, Tags |-> Tags,
       Post_Categories |-> Post_Categories, Post_Tags |-> Post_Tags,
       Comments |-> Comments, posts_id_seq |-> posts_id_seq,
       tags_id_seq |-> tags_id_seq, categories_id_seq |-> categories_id_seq,
       comments_id_seq |-> comments_id_seq]

\* The rows of the tables, without the sequences.
Tables(db) == <<db.Posts, db.Categories, db.Tags, db.Post_Categories,
                db.Post_Tags, db.Comments>>

Ok(db, ret) == [ok |-> TRUE, db |-> db, ret |-> ret]
Err(db) == [ok |-> FALSE, db |-> db, ret |-> NULL]

\* INSERT INTO Categories ... default data.
DefaultCategories ==
    { [id |-> 1, name |-> <<"T","e","c","h","n","o","l","o","g","y">>],
      [id |-> 2, name |-> <<"T","u","t","o","r","i","a","l","s">>],
      [id |-> 3, name |-> <<"O","p","i","n","i","o","n">>] }

\* INSERT INTO Tags ... default data.
DefaultTags ==
    { [id |-> 1, name |-> <<"j","a","v","a","s","c","r","i","p","t">>],
      [id |-> 2, name |-> <<"n","o","d","e","j","s">>],
      [id |-> 3, name |-> <<"p","r","o","g","r","a","m","m","i","n","g">>],
      [id |-> 4, name |-> <<"w","e","b","d","e","v">>],
      [id |-> 5, name |-> <<"d","a","t","a","b","a","s","e">>],
      [id |-> 6, name |-> <<"t","u","t","o","r","i","a","l">>] }

\* INSERT INTO Posts (...) VALUES (...) RETURNING id.  The id comes from the
\* sequence, which advances whether or not the row is accepted; slug is
\* UNIQUE.
SqlInsertPost(db, title, slug, content, status, username) ==
    LET id == db.posts_id_seq + 1
        d1 == [db EXCEPT !.posts_id_seq = id]
        row == [id |-> id, title |-> title, slug |-> slug, content |-> content,
                status |-> status, UserName |-> username]
    IN  IF \E p \in db.Posts : p.slug = slug
        THEN Err(d1)
        ELSE Ok([d1 EXCEPT !.Posts = @ \cup {row}], id)

\* UPDATE Posts SET title, slug, ..., status WHERE id = $7.
\* Faulty variant: the slug column is left as it was.
SqlUpdatePostKeepsSlug(db, id, title, slug, content, status) ==
    Ok([db EXCEPT !.Posts =
           { IF p.id = id
             THEN [p EXCEPT !.title = title, !.content = content,
                            !.status = status]
             ELSE p : p \in @ }],
       Cardinality({p \in db.Posts : p.id = id}))

SqlUpdatePost(db, id, title, slug, content, status) ==
    IF \E p \in db.Posts : p.id # id /\ p.slug = slug
          /\ \E q \in db.Posts : q.id = id
    THEN Err(db)
    ELSE Ok([db EXCEPT !.Posts =
                { IF p.id = id
                  THEN [p EXCEPT !.title = title, !.slug = slug,
                                 !.content = content, !.status = status]
                  ELSE p : p \in @ }],
            Cardinality({p \in db.Posts : p.id = id}))

\* DELETE FROM Post_Categories WHERE post_id = $1.
SqlDeletePostCategories(db, post_id) ==
    Ok([db EXCEPT !.Post_Categories = {l \in @ : l[1] # post_id}],
       Cardinality({l \in db.Post_Categories : l[1] = post_id}))

\* DELETE FROM Post_Tags WHERE post_id = $1.
\* Faulty variant: the links stay.
SqlKeepPostTags(db, post_id) ==
    Ok(db, Cardinality({l \in db.Post_Tags : l[1] = post_id}))

SqlDeletePostTags(db, post_id) ==
    Ok([db EXCEPT !.Post_Tags = {l \in @ : l[1] # post_id}],
       Cardinality({l \in db.Post_Tags : l[1] = post_id}))

\* INSERT INTO Post_Categories (post_id, category_id): both columns are
\* foreign keys and together the primary key.
SqlInsertPostCategory(db, post_id, category_id) ==
    IF /\ \E p \in db.Posts : p.id = post_id
       /\ \E c \in db.Categories : c.id = category_id
       /\ <<post_id, category_id>> \notin db.Post_Categories
    THEN Ok([db EXCEPT !.Post_Categories = @ \cup {<<post_id, category_id>>}], 1)
    ELSE Err(db)

\* SELECT id FROM Tags WHERE name = $1: the ids of the rows found.
SqlSelectTag(db, name) ==
    Ok(db, {t.id : t \in {x \in db.Tags : x.name = name}})

\* INSERT INTO Tags (name) VALUES ($1) RETURNING id; name is UNIQUE.
SqlInsertTag(db, name) ==
    LET id == db.tags_id_seq + 1
        d1 == [db EXCEPT !.tags_id_seq = id]
    IN  IF \E t \in db.Tags : t.name = name
        THEN Err(d1)
        ELSE Ok([d1 EXCEPT !.Tags = @ \cup {[id |-> id, name |-> name]}], id)

\* INSERT INTO Post_Tags (post_id, tag_id): both columns are foreign keys
\* and together the primary key.
SqlInsertPostTag(db, post_id, tag_id) ==
    IF /\ \E p \in db.Posts : p.id = post_id
       /\ \E t \in db.Tags : t.id = tag_id
       /\ <<post_id, tag_id>> \notin db.Post_Tags
    THEN Ok([db EXCEPT !.Post_Tags = @ \cup {<<post_id, tag_id>>}], 1)
    ELSE Err(db)

\* The comments removed when `roots` are: parent_id ... ON DELETE CASCADE
\* removes every reply of a removed comment, transitively.
RECURSIVE CascadeComments(_, _)
CascadeComments(comments, roots) ==
    LET more == {c \in comments : c.parent_id \in {r.id : r \in roots}} \ roots
    IN  IF more = {} THEN roots ELSE CascadeComments(comments, roots \cup more)

\* Faulty variant: the comment id is compared, not post_id.
SqlDeleteCommentsById(db, post_id) ==
    LET gone == CascadeComments(db.Comments,
                                {c \in db.Comments : c.id = post_id})
    IN  Ok([db EXCEPT !.Comments = @ \ gone],
           Cardinality({c \in db.Comments : c.id = post_id}))

\* DELETE FROM comments WHERE post_id = $1.
SqlDeleteCommentsOfPost(db, post_id) ==
    LET gone == CascadeComments(db.Comments,
                                {c \in db.Comments : c.post_id = post_id})
    IN  Ok([db EXCEPT !.Comments = @ \ gone],
           Cardinality({c \in db.Comments : c.post_id = post_id}))

\* DELETE FROM posts WHERE id = $1, with the ON DELETE CASCADE of
\* Post_Categories, Post_Tags and Comments.
SqlDeletePost(db, id) ==
    LET gone == CascadeComments(db.Comments,
                                {c \in db.Comments : c.post_id = id})
    IN  Ok([db EXCEPT !.Posts = {p \in @ : p.id # id},
                      !.Post_Categories = {l \in @ : l[1] # id},
                      !.Post_Tags = {l \in @ : l[1] # id},
                      !.Comments = @ \ gone],
           Cardinality({p \in db.Posts : p.id = id}))

\* SELECT id FROM posts WHERE id = $1.
SqlSelectPost(db, id) == Ok(db, {p.id : p \in {x \in db.Posts : x.id = id}})

\* SELECT id FROM Posts WHERE slug = $1 AND status = $2.
\* Faulty variant: the status is not compared.
SqlSelectPostBySlug(db, slug, status) ==
    Ok(db, {p.id : p \in {x \in db.Posts : x.slug = slug}})

SqlSelectPostBySlugStatus(db, slug, status) ==
    Ok(db, {p.id : p \in {x \in db.Posts : x.slug = slug /\ x.status = status}})

\* SELECT id FROM Comments WHERE id = $1 AND post_id = $2.
SqlSelectParentComment(db, id, post_id) ==
    LET v == PgInteger(id)
    IN  IF ~v.ok THEN Err(db)
        ELSE Ok(db, {c.id : c \in {x \in db.Comments :
                                      x.id = v.value /\ x.post_id = post_id}})

\* Faulty variant: post_id and parent_id reference nothing.
SqlInsertCommentUnreferenced(db, content, username, post_id, parent_id) ==
    LET v == IF parent_id = <<>> THEN [ok |-> TRUE, value |-> NULL]
             ELSE PgInteger(parent_id)
        id == db.comments_id_seq + 1
        d1 == [db EXCEPT !.comments_id_seq = id]
        row == [id |-> id, content |-> content, UserName |-> username,
                post_id |-> post_id, parent_id |-> v.value,
                is_approved |-> FALSE]
    IN  IF ~v.ok THEN Err(db)
        ELSE Ok([d1 EXCEPT !.Comments = @ \cup {row}], id)

\* INSERT INTO Comments (content, "UserName", post_id, parent_id): post_id
\* and parent_id are foreign keys, is_approved defaults to FALSE.  The
\* parent_id parameter is text, the empty text standing for null.
SqlInsertComment(db, content, username, post_id, parent_id) ==
    LET v == IF parent_id = <<>> THEN [ok |-> TRUE, value |-> NULL]
             ELSE PgInteger(parent_id)
        id == db.comments_id_seq + 1
        d1 == [db EXCEPT !.comments_id_seq = id]
        row == [id |-> id, content |-> content, UserName |-> username,
                post_id |-> post_id, parent_id |-> v.value,
                is_approved |-> FALSE]
    IN  IF ~v.ok THEN Err(db)
        ELSE IF /\ \E p \in db.Posts : p.id = post_id
                /\ v.value # NULL => \E c \in db.Comments : c.id = v.value
        THEN Ok([d1 EXCEPT !.Comments = @ \cup {row}], id)
        ELSE Err(d1)

\* Faulty variant: the comment is approved whatever the action.
SqlUpdateCommentApprovedAlways(db, is_approved, id) ==
    Ok([db EXCEPT !.Comments =
            {IF c.id = id THEN [c EXCEPT !.is_approved = TRUE] ELSE c : c \in @}],
       Cardinality({c \in db.Comments : c.id = id}))

\* Faulty variant: the flag of the comment is flipped.
SqlUpdateCommentApprovedFlips(db, is_approved, id) ==
    Ok([db EXCEPT !.Comments =
            {IF c.id = id THEN [c EXCEPT !.is_approved = ~@] ELSE c : c \in @}],
       Cardinality({c \in db.Comments : c.id = id}))

\* UPDATE comments SET is_approved = $1 WHERE id = $2: ret is rowCount.
SqlUpdateCommentApproved(db, is_approved, id) ==
    Ok([db EXCEPT !.Comments =
            { IF c.id = id THEN [c EXCEPT !.is_approved = is_approved] ELSE c
              : c \in @ }],
       Cardinality({c \in db.Comments : c.id = id}))

\* DELETE FROM comments WHERE id = $1: ret is rowCount.
\* Faulty variant: the replies of the comment stay.
SqlDeleteCommentAlone(db, id) ==
    Ok([db EXCEPT !.Comments = {c \in @ : c.id # id}],
       Cardinality({c \in db.Comments : c.id = id}))

SqlDeleteComment(db, id) ==
    LET gone == CascadeComments(db.Comments, {c \in db.Comments : c.id = id})
    IN  Ok([db EXCEPT !.Comments = @ \ gone],
           Cardinality({c \in db.Comments : c.id = id}))

\* SELECT COUNT(*) FROM Post_Categories WHERE category_id = $1.
\* Faulty variant: counts the links of the post with that id.
SqlCountPostCategoriesByPost(db, category_id) ==
    Ok(db, Cardinality({l \in db.Post_Categories : l[1] = category_id}))

SqlCountPostCategories(db, category_id) ==
    Ok(db, Cardinality({l \in db.Post_Categories : l[2] = category_id}))

\* DELETE FROM categories WHERE id = $1, with the ON DELETE CASCADE of
\* Post_Categories: ret is rowCount.
SqlDeleteCategory(db, id) ==
    Ok([db EXCEPT !.Categories = {c \in @ : c.id # id},
                  !.Post_Categories = {l \in @ : l[2] # id}],
       Cardinality({c \in db.Categories : c.id = id}))

-----------------------------------------------------------------------------
(* One transaction on a pooled client.  t.db is the state the transaction  *)
(* sees, t.ok turns FALSE when a statement throws, t.n counts the          *)
(* statements sent so far (BEGIN is the first) and t.log lists what was    *)
(* done with the client, in order.  t.fail says where the storage fails:   *)
(*   0    nowhere                                                          *)
(*   k    statement k alone fails                                          *)
(*   -k   the connection is lost at statement k: it and every later        *)
(*        statement fail, a ROLLBACK included                              *)

\* Does the statement sent next fail?
Fails(t) ==
    \/ t.n + 1 = t.fail
    \/ t.fail < 0 /\ t.n + 1 >= 0 - t.fail

\* await client.query(text): r is the statement applied to t.db.  Nothing is
\* sent once an exception is on its way to the catch block.
ClientQuery(t, r, text) ==
    IF ~t.ok THEN t
    ELSE IF Fails(t)
    THEN [t EXCEPT !.ok = FALSE, !.n = @ + 1, !.log = Append(@, text)]
    ELSE [t EXCEPT !.db = r.db, !.ok = r.ok, !.ret = r.ret, !.n = @ + 1,
                   !.log = Append(@, text)]

\* const client = await pool.connect(); ... client.query('BEGIN')
Begin(db, fail) ==
    ClientQuery([db |-> db, ok |-> TRUE, n |-> 0, fail |-> fail, ret |-> NULL,
                 log |-> <<"connect">>],
                Ok(db, NULL), "BEGIN")

\* A statement of the handler's body.
Exec(t, r) == ClientQuery(t, r, "query")

\* An exception thrown by the handler's own code (JSON.parse, a method call
\* on a value of the wrong type).
Throw(t) == [t EXCEPT !.ok = FALSE]

\* client.query('COMMIT'): what the transaction wrote becomes the database.
Commit(db, t) == t.db

\* client.query('ROLLBACK'): the rows are those before the transaction;
\* values taken from the sequences are not given back.
\* Faulty variant: the writes of the transaction stay.
RollbackKeepsWrites(db, t) == t.db

Rollback(db, t) ==
    [db EXCEPT !.posts_id_seq = t.db.posts_id_seq,
               !.tags_id_seq = t.db.tags_id_seq,
               !.comments_id_seq = t.db.comments_id_seq]

-----------------------------------------------------------------------------
(* Request payloads.  req.body.categories and req.body.tags arrive as one  *)
(* of several shapes: kind says which, items holds the entries of an array. *)
(*   absent      undefined or an empty string (falsy)                      *)
(*   badjson     a string JSON.parse rejects                               *)
(*   json        a string holding a JSON array of the items                *)
(*   jsonscalar  a string holding JSON that is not an array (a number)     *)
(*   array       a native array of the items                               *)
(*   object      any other truthy value                                    *)

Payload(kind, items) == [kind |-> kind, items |-> items]

\* The category id list of a create or update request: [ok, ids].  ok is
\* FALSE when the inner try block throws (JSON.parse, or .map on a value
\* that has none).
\* Faulty variant: the NaN entries are kept.
ParseCategoriesKeepsNaN(categories) ==
    CASE categories.kind = "absent" -> [ok |-> TRUE, ids |-> <<>>]
      [] categories.kind = "badjson" -> [ok |-> FALSE, ids |-> <<>>]
      [] categories.kind = "jsonscalar" -> [ok |-> FALSE, ids |-> <<>>]
      [] categories.kind \in {"json", "array"} ->
            [ok |-> TRUE,
             ids |-> [i \in DOMAIN categories.items |-> parseInt(categories.items[i])]]
      [] OTHER -> [ok |-> TRUE, ids |-> <<>>]

ParseCategories(categories) ==
    CASE categories.kind = "absent" -> [ok |-> TRUE, ids |-> <<>>]
      [] categories.kind = "badjson" -> [ok |-> FALSE, ids |-> <<>>]
      [] categories.kind = "jsonscalar" -> [ok |-> FALSE, ids |-> <<>>]
      [] categories.kind \in {"json", "array"} ->
            [ok |-> TRUE, ids |-> SeqFilterMap(categories.items)]
      [] OTHER -> [ok |-> TRUE, ids |-> <<>>]

\* for (const categoryId of categoryIds) INSERT INTO Post_Categories
RECURSIVE AddCategories(_, _, _)
AddCategories(t, post_id, ids) ==
    IF ids = <<>> \/ ~t.ok THEN t
    ELSE AddCategories(
             IF Head(ids) # NaN
             THEN Exec(t, SqlInsertPostCategory(t.db, post_id, Head(ids)))
             ELSE t,
             post_id, Tail(ids))

\* One round of the tag loop: normalize, get or create the tag, link it.
\* A tag entry is [isString, text]; toLowerCase on a non-string throws.
AddTag(t, post_id, tagName) ==
    IF ~tagName.isString THEN Throw(t)
    ELSE LET normalizedTagName == trim(toLowerCase(tagName.text))
             found == Exec(t, SqlSelectTag(t.db, normalizedTagName))
             tagResult ==
                 IF found.ok /\ found.ret = {}
                 THEN Exec(found, SqlInsertTag(found.db, normalizedTagName))
                 ELSE IF found.ok
                      THEN [found EXCEPT !.ret = CHOOSE id \in found.ret : TRUE]
                      ELSE found
         IN  Exec(tagResult,
                  SqlInsertPostTag(tagResult.db, post_id, tagResult.ret))

\* for (const tagName of tagArray) ...
RECURSIVE AddTagArray(_, _, _)
AddTagArray(t, post_id, tagArray) ==
    IF tagArray = <<>> \/ ~t.ok THEN t
    ELSE AddTagArray(AddTag(t, post_id, Head(tagArray)), post_id, Tail(tagArray))

\* if (tags) { const tagArray = JSON.parse(tags); for (...) ... }
\* JSON.parse throws on bad JSON and on a native array (it is first turned
\* into text that is no JSON array); iterating a number throws.
AddTags(t, post_id, tags) ==
    CASE tags.kind = "absent" -> t
      [] tags.kind = "json" -> AddTagArray(t, post_id, tags.items)
      [] OTHER -> Throw(t)

\* status || 'draft': an absent status is the empty text.
StatusOrDraft(status) == IF status = "" THEN "draft" ELSE status

\* The status of a request that gets no response: the handler's promise is
\* rejected after the catch block threw.
NoResponse == 0

\* finally { client.release(); }
\* Faulty variant: the client is released at the end of the catch block.
ReleaseAfterCatch(log, thrown) ==
    IF thrown THEN log ELSE Append(log, "release")

Finally(log, thrown) == Append(log, "release")

\* catch (err) { await client.query('ROLLBACK'); ... 500 }, then the finally
\* block.  When the ROLLBACK throws too no response is sent; the transaction
\* is never committed, so its rows stay invisible.
Catch(db, t) ==
    LET r == ClientQuery([t EXCEPT !.ok = TRUE], Ok(t.db, NULL), "ROLLBACK")
    IN  [db |-> Rollback(db, t),
         status |-> IF r.ok THEN 500 ELSE NoResponse,
         id |-> NULL, message |-> "", log |-> Finally(r.log, ~r.ok)]

\* The end of a transactional handler: COMMIT and 200, or the catch block's
\* ROLLBACK and 500.
Finish(db, t, id) ==
    LET c == ClientQuery(t, Ok(t.db, NULL), "COMMIT")
    IN  IF c.ok
        THEN [db |-> Commit(db, c), status |-> 200, id |-> id, message |-> "",
              log |-> Finally(c.log, FALSE)]
        ELSE Catch(db, c)

\* An early return inside the try block: ROLLBACK, then the response with
\* its status and message.  A BEGIN or ROLLBACK that throws leads to the
\* catch block instead.
Return(db, t, status, message) ==
    LET r == ClientQuery(t, Ok(t.db, NULL), "ROLLBACK")
    IN  IF r.ok
        THEN [db |-> Rollback(db, t), status |-> status, id |-> NULL,
              message |-> message, log |-> Finally(r.log, FALSE)]
        ELSE Catch(db, r)

\* A validation failure: the 400 response.
Reject(db, t, message) == Return(db, t, 400, message)

\* router.post('/api/posts'): [db, status, id] is the database after the
\* request and the response.
CreatePost(db, req, username) ==
    LET t0 == Begin(db, req.fail)
        parsed == ParseCategories(req.categories)
        slug == Slugify(req.title)
        postResult == Exec(t0, SqlInsertPost(t0.db, req.title, slug, req.content,
                                            StatusOrDraft(req.status), username))
        withCats == AddCategories(postResult, postResult.ret, parsed.ids)
        withTags == AddTags(withCats, postResult.ret, req.tags)
    IN  IF req.title = <<>> \/ req.content = <<>>
        THEN Reject(db, t0, "Title and content are required")
        ELSE IF ~parsed.ok THEN Reject(db, t0, "Invalid categories format")
        ELSE IF parsed.ids = <<>>
        THEN Reject(db, t0, "At least one category is required")
        ELSE Finish(db, withTags, postResult.ret)

\* router.put('/api/posts/:id')
UpdatePost(db, id, req) ==
    LET t0 == Begin(db, req.fail)
        parsed == ParseCategories(req.categories)
        slug == Slugify(req.title)
        updated == Exec(t0, SqlUpdatePost(t0.db, id, req.title, slug, req.content,
                                          StatusOrDraft(req.status)))
        noCats == Exec(updated, SqlDeletePostCategories(updated.db, id))
        withCats == AddCategories(noCats, id, parsed.ids)
        noTags == Exec(withCats, SqlDeletePostTags(withCats.db, id))
        withTags == AddTags(noTags, id, req.tags)
    IN  IF req.title = <<>> \/ req.content = <<>>
        THEN Reject(db, t0, "Title and content are required")
        ELSE IF ~parsed.ok THEN Reject(db, t0, "Invalid categories format")
        ELSE IF parsed.ids = <<>>
        THEN Reject(db, t0, "At least one category is required")
        ELSE Finish(db, withTags, id)

\* router.delete('/api/posts/:id')
DeletePost(db, id, fail) ==
    LET t0 == Begin(db, fail)
        postCheck == Exec(t0, SqlSelectPost(t0.db, id))
        noComments == Exec(postCheck, SqlDeleteCommentsOfPost(postCheck.db, id))
        noTags == Exec(noComments, SqlDeletePostTags(noComments.db, id))
        noCats == Exec(noTags, SqlDeletePostCategories(noTags.db, id))
        noPost == Exec(noCats, SqlDeletePost(noCats.db, id))
    IN  IF postCheck.ok /\ postCheck.ret = {}
        THEN Return(db, postCheck, 404, "Post not found")
        ELSE Finish(db, noPost, id)

-----------------------------------------------------------------------------
(* Handlers that use pool.query: every statement commits on its own.       *)

\* router.delete('/api/categories/:id'): [db, status, count]; count is the
\* number the 400 message reports.
DeleteCategory(db, id) ==
    LET postCount == SqlCountPostCategories(db, id)
        result == SqlDeleteCategory(postCount.db, id)
    IN  IF postCount.ret > 0
        THEN [db |-> db, status |-> 400, count |-> postCount.ret]
        ELSE IF result.ret = 0
        THEN [db |-> result.db, status |-> 404, count |-> 0]
        ELSE [db |-> result.db, status |-> 200, count |-> 0]

\* router.put('/api/comments/:id/:action')
ModerateComment(db, id, action) ==
    LET result == SqlUpdateCommentApproved(db, action = "approve", id)
    IN  IF action \notin {"approve", "unapprove"}
        THEN [db |-> db, status |-> 400]
        ELSE IF result.ret = 0
        THEN [db |-> result.db, status |-> 404]
        ELSE [db |-> result.db, status |-> 200]

\* router.delete('/api/comments/:id')
DeleteComment(db, id) ==
    LET result == SqlDeleteComment(db, id)
    IN  IF result.ret = 0
        THEN [db |-> result.db, status |-> 404]
        ELSE [db |-> result.db, status |-> 200]

(* router.post('/post/:slug/comment'), statement by statement.  A request   *)
(* in flight is [slug, content, parent_id, username, pc, postId, status,   *)
(* message]; parent_id is the text of the body field, the empty text       *)
(* standing for every falsy value (absent, empty).                         *)

\* if (!content || !content.trim())
CommentValidate(c) ==
    IF trim(c.content) = <<>>
    THEN [c EXCEPT !.pc = "done", !.status = 400,
                   !.message = "Comment content is required"]
    ELSE [c EXCEPT !.pc = "post"]

\* SELECT id FROM Posts WHERE slug = $1 AND status = 'published'
CommentFindPost(db, c) ==
    LET post == SqlSelectPostBySlugStatus(db, c.slug, "published")
    IN  IF post.ret = {}
        THEN [c EXCEPT !.pc = "done", !.status = 404,
                       !.message = "Post not found or not published"]
        ELSE [c EXCEPT !.pc = IF c.parent_id # <<>> THEN "parent" ELSE "insert",
                       !.postId = CHOOSE id \in post.ret : TRUE]

\* SELECT id FROM Comments WHERE id = $1 AND post_id = $2
CommentCheckParent(db, c) ==
    LET parentComment == SqlSelectParentComment(db, c.parent_id, c.postId)
    IN  IF ~parentComment.ok
        THEN [c EXCEPT !.pc = "done", !.status = 500,
                       !.message = "Error adding comment"]
        ELSE IF parentComment.ret = {}
        THEN [c EXCEPT !.pc = "done", !.status = 400,
                       !.message = "Invalid parent comment"]
        ELSE [c EXCEPT !.pc = "insert"]

\* INSERT INTO Comments ...; res.redirect, or the catch block's 500.
CommentInsert(db, c) ==
    LET r == SqlInsertComment(db, trim(c.content), c.username, c.postId,
                              c.parent_id)
    IN  [db |-> r.db,
         c |-> [c EXCEPT !.pc = "done",
                         !.status = IF r.ok THEN 302 ELSE 500,
                         !.message = IF r.ok THEN "" ELSE "Error adding comment"]]

NewComment(slug, content, parent_id, username) ==
    [slug |-> slug, content |-> content, parent_id |-> parent_id,
     username |-> username, pc |-> "validate", postId |-> NULL, status |-> 0,
     message |-> ""]

\* The handler run from the request in flight c to its response with no
\* other request in between: [db, c].
RECURSIVE RunComment(_, _)
RunComment(db, c) ==
    CASE c.pc = "validate" -> RunComment(db, CommentValidate(c))
      [] c.pc = "post" -> RunComment(db, CommentFindPost(db, c))
      [] c.pc = "parent" -> RunComment(db, CommentCheckParent(db, c))
      [] c.pc = "insert" -> CommentInsert(db, c)
      [] OTHER -> [db |-> db, c |-> c]

\* router.post('/post/:slug/comment') as one request: [db, status, message].
AddComment(db, slug, content, parent_id, username) ==
    LET r == RunComment(db, NewComment(slug, content, parent_id, username))
    IN  [db |-> r.db, status |-> r.c.status, message |-> r.c.message]

-----------------------------------------------------------------------------
(* Public routes.  A viewer is req.session.user: [username, role], or      *)
(* Anonymous when the session holds no user.                               *)

Anonymous == [username |-> "", role |-> ""]

LoggedIn(viewer) == viewer # Anonymous

\* req.session.user && req.session.user.role === 'SuperAdmin'
IsSuperAdmin(viewer) == LoggedIn(viewer) /\ viewer.role = "SuperAdmin"

\* The whereClause of the listing routes: the statuses a viewer is shown.
\* Faulty variant: a SuperAdmin is listed the drafts as well.
ListedStatusesWithDrafts(viewer) ==
    IF IsSuperAdmin(viewer) THEN {"published", "private", "draft"}
    ELSE {"published"}

ListedStatuses(viewer) ==
    IF IsSuperAdmin(viewer) THEN {"published", "private"} ELSE {"published"}

\* router.get('/'): the ids of the posts listed (over all pages).
Home(db, viewer) ==
    {p.id : p \in {x \in db.Posts : x.status \in ListedStatuses(viewer)}}

\* router.get('/author/:username')
AuthorArchive(db, username, viewer) ==
    {p.id : p \in {x \in db.Posts : /\ x.status \in ListedStatuses(viewer)
                                    /\ x.UserName = username}}

\* router.get('/category/:categoryName'): [status, posts].
CategoryArchive(db, categoryName, viewer) ==
    LET category == {c \in db.Categories : c.name = categoryName}
    IN  IF category = {} THEN [status |-> 404, posts |-> {}]
        ELSE [status |-> 200,
              posts |-> {p.id : p \in
                  {x \in db.Posts :
                      /\ x.status \in ListedStatuses(viewer)
                      /\ \E c \in category :
                             <<x.id, c.id>> \in db.Post_Categories}}]

\* router.get('/tag/:tagName'): [status, posts].
TagArchive(db, tagName, viewer) ==
    LET tag == {t \in db.Tags : t.name = tagName}
    IN  IF tag = {} THEN [status |-> 404, posts |-> {}]
        ELSE [status |-> 200,
              posts |-> {p.id : p \in
                  {x \in db.Posts :
                      /\ x.status \in ListedStatuses(viewer)
                      /\ \E t \in tag : <<x.id, t.id>> \in db.Post_Tags}}]

\* router.get('/bookmarks'): ids is the req.query.ids payload; anything but
\* a JSON array gives no ids.
Bookmarks(db, ids, viewer) ==
    LET bookmarkIds == IF ids.kind = "json" THEN SeqFilterMap(ids.items)
                       ELSE <<>>
    IN  {p.id : p \in {x \in db.Posts : /\ x.status \in ListedStatuses(viewer)
                                        /\ x.id \in Range(bookmarkIds)}}

\* generateSitemaps: the slugs written to sitemap-posts.xml.
SitemapPosts(db) == {p.slug : p \in {x \in db.Posts : x.status = "published"}}

\* The three commentsQuery variants of router.get('/post/:slug').
\* Faulty variant: a logged-in viewer gets the query of the anonymous one.
CommentsQueryApprovedOnly(db, post_id, viewer) ==
    IF IsSuperAdmin(viewer)
    THEN {c \in db.Comments : c.post_id = post_id}
    ELSE {c \in db.Comments : c.post_id = post_id /\ c.is_approved = TRUE}

CommentsQuery(db, post_id, viewer) ==
    IF IsSuperAdmin(viewer)
    THEN {c \in db.Comments : c.post_id = post_id}
    ELSE IF LoggedIn(viewer)
    THEN {c \in db.Comments :
             /\ c.post_id = post_id
             /\ (c.is_approved = TRUE \/ c.UserName = viewer.username)}
    ELSE {c \in db.Comments : c.post_id = post_id /\ c.is_approved = TRUE}

\* Faulty variant: replyCount counts the replies stored, returned or not.
CommentRowCountsStored(db, c, rows) ==
    LET pc == {x \in db.Comments : x.id = c.parent_id}
    IN  [id |-> c.id, content |-> c.content, UserName |-> c.UserName,
         parent_id |-> c.parent_id, is_approved |-> c.is_approved,
         parent_content |->
             IF pc = {} THEN <<>> ELSE (CHOOSE x \in pc : TRUE).content,
         parent_author_name |->
             IF pc = {} THEN "" ELSE (CHOOSE x \in pc : TRUE).UserName,
         replyCount |->
             Cardinality({reply \in db.Comments : reply.parent_id = c.id})]

\* One row of the comments result: the selected columns, the columns of the
\* LEFT JOIN with the parent comment, and replyCount.
CommentRow(db, c, rows) ==
    LET pc == {x \in db.Comments : x.id = c.parent_id}
    IN  [id |-> c.id, content |-> c.content, UserName |-> c.UserName,
         parent_id |-> c.parent_id, is_approved |-> c.is_approved,
         parent_content |->
             IF pc = {} THEN <<>> ELSE (CHOOSE x \in pc : TRUE).content,
         parent_author_name |->
             IF pc = {} THEN "" ELSE (CHOOSE x \in pc : TRUE).UserName,
         replyCount |-> Cardinality({reply \in rows : reply.parent_id = c.id})]

\* router.get('/post/:slug'): [status, post, comments, tags]; post is the
\* id of the post rendered, NULL when none is.
\* Faulty variant: a private post is rendered for every logged-in viewer.
GetPostForLoggedIn(db, slug, viewer) ==
    LET post == {p \in db.Posts :
                    p.slug = slug /\ p.status \in {"published", "private"}}
        row == CHOOSE p \in post : TRUE
        rows == CommentsQuery(db, row.id, viewer)
    IN  IF post = {}
        THEN [status |-> 404, post |-> NULL, comments |-> {}, tags |-> {}]
        ELSE IF row.status = "private" /\ ~LoggedIn(viewer)
        THEN [status |-> 403, post |-> NULL, comments |-> {}, tags |-> {}]
        ELSE [status |-> 200, post |-> row.id,
              comments |-> {CommentRow(db, c, rows) : c \in rows},
              tags |-> {t.name : t \in {x \in db.Tags :
                                          <<row.id, x.id>> \in db.Post_Tags}}]

GetPost(db, slug, viewer) ==
    LET post == {p \in db.Posts :
                    p.slug = slug /\ p.status \in {"published", "private"}}
        row == CHOOSE p \in post : TRUE
        isOwner == LoggedIn(viewer) /\ viewer.username = row.UserName
        rows == CommentsQuery(db, row.id, viewer)
    IN  IF post = {}
        THEN [status |-> 404, post |-> NULL, comments |-> {}, tags |-> {}]
        ELSE IF row.status = "private" /\ ~isOwner /\ ~IsSuperAdmin(viewer)
        THEN [status |-> 403, post |-> NULL, comments |-> {}, tags |-> {}]
        ELSE [status |-> 200, post |-> row.id,
              comments |-> {CommentRow(db, c, rows) : c \in rows},
              tags |-> {t.name : t \in {x \in db.Tags :
                                          <<row.id, x.id>> \in db.Post_Tags}}]

-----------------------------------------------------------------------------
(* The inputs the requests are drawn from.                                 *)

Users == {"alice", "bob"}

\* Sessions: anonymous, or a user with the role the session holds.
Viewers == {Anonymous} \cup [username : Users, role : {"SuperAdmin", "NormalUser"}]

PostIds == 1..(MaxPostId + 1)
CommentIds == 1..(MaxCommentId + 1)
CategoryIds == 1..(Cardinality(DefaultCategories) + 1)

Titles == { <<>>, <<"H","i">>, <<"h","i","!">>, <<"Y","o">> }

NoPayload == Payload("absent", <<>>)

CategoryPayloads ==
    { NoPayload, Payload("badjson", <<>>), Payload("jsonscalar", <<>>),
      Payload("object", <<>>),
      Payload("json", << <<"x">> >>),
      Payload("json", << <<"1">> >>),
      Payload("json", << <<"x">>, <<"2">> >>),
      Payload("json", << <<"1">>, <<"1">> >>),
      Payload("json", << <<"9">> >>),
      Payload("array", << <<"1">>, <<"2">> >>) }

TagText(text) == [isString |-> TRUE, text |-> text]

\* The tag list of the normalization example: ["JS", " js ", "Js"].
SameTagThrice ==
    Payload("json", << TagText(<<"J","S">>), TagText(<<" ","j","s"," ">>),
                       TagText(<<"J","s">>) >>)

TagPayloads ==
    { NoPayload, Payload("badjson", <<>>),
      Payload("array", << TagText(<<"J","S">>) >>),
      Payload("json", << TagText(<<"J","S">>) >>),
      SameTagThrice,
      Payload("json", << TagText(<<"N","o","d","e","J","S"," ">>),
                         TagText(<<" ","j","s">>) >>),
      Payload("json", << [isString |-> FALSE, text |-> <<"7">>] >>) }

BaseRequest ==
    [title |-> <<"H","i">>, content |-> <<"C">>,
     categories |-> Payload("json", << <<"1">> >>), tags |-> NoPayload,
     status |-> "published", fail |-> 0]

\* The create and update requests of the write workflow: the base request
\* with one of its fields varied, and with a storage failure at each
\* statement of a request that creates a tag.
PostRequests ==
    {[BaseRequest EXCEPT !.title = t] : t \in Titles}
    \cup {[BaseRequest EXCEPT !.content = <<>>]}
    \cup {[BaseRequest EXCEPT !.categories = c] : c \in CategoryPayloads}
    \cup {[BaseRequest EXCEPT !.tags = t] : t \in TagPayloads}
    \cup {[BaseRequest EXCEPT !.status = ""]}
    \cup {[BaseRequest EXCEPT !.tags = Payload("json", << TagText(<<"J","S">>) >>),
                              !.fail = f] : f \in 1..MaxFail}

-----------------------------------------------------------------------------
(* Requests as actions.                                                    *)

Install(db) ==
    /\ Posts' = db.Posts
    /\ Categories' = db.Categories
    /\ Tags' = db.Tags
    /\ Post_Categories' = db.Post_Categories
    /\ Post_Tags' = db.Post_Tags
    /\ Comments' = db.Comments
    /\ posts_id_seq' = db.posts_id_seq
    /\ tags_id_seq' = db.tags_id_seq
    /\ categories_id_seq' = db.categories_id_seq
    /\ comments_id_seq' = db.comments_id_seq

\* The sequences stay within the bounds of the model.
InBounds(db) ==
    /\ db.posts_id_seq <= MaxPostId
    /\ db.tags_id_seq <= Cardinality(DefaultTags) + MaxNewTags
    /\ db.categories_id_seq <= Cardinality(DefaultCategories) + MaxNewCategories
    /\ db.comments_id_seq <= MaxCommentId

Init ==
    /\ Posts = {}
    /\ Categories = DefaultCategories
    /\ Tags = DefaultTags
    /\ Post_Categories = {}
    /\ Post_Tags = {}
    /\ Comments = {}
    /\ posts_id_seq = 0
    /\ tags_id_seq = Cardinality(DefaultTags)
    /\ categories_id_seq = Cardinality(DefaultCategories)
    /\ comments_id_seq = 0
    /\ inflight = {}
    /\ last = [op |-> "none", status |-> 0, id |-> NULL, message |-> ""]

\* POST /dashboard/api/posts by a SuperAdmin session.
CreatePostReq(req, username) ==
    \E r \in {CreatePost(DB, req, username)} :
        /\ InBounds(r.db)
        /\ Install(r.db)
        /\ last' = [op |-> "createPost", status |-> r.status, id |-> r.id,
                    message |-> r.message]
        /\ UNCHANGED inflight

\* PUT /dashboard/api/posts/:id
UpdatePostReq(id, req) ==
    \E r \in {UpdatePost(DB, id, req)} :
        /\ InBounds(r.db)
        /\ Install(r.db)
        /\ last' = [op |-> "updatePost", status |-> r.status, id |-> id,
                    message |-> r.message]
        /\ UNCHANGED inflight

\* DELETE /dashboard/api/posts/:id
DeletePostReq(id, fail) ==
    \E r \in {DeletePost(DB, id, fail)} :
        /\ Install(r.db)
        /\ last' = [op |-> "deletePost", status |-> r.status, id |-> id,
                    message |-> r.message]
        /\ UNCHANGED inflight

\* DELETE /dashboard/api/categories/:id
DeleteCategoryReq(id) ==
    \E r \in {DeleteCategory(DB, id)} :
        /\ Install(r.db)
        /\ last' = [op |-> "deleteCategory", status |-> r.status, id |-> id,
                    message |-> "", count |-> r.count]
        /\ UNCHANGED inflight

\* The write workflow of the dashboard.
NextWrite ==
    \/ \E req \in PostRequests, u \in {"alice"} : CreatePostReq(req, u)
    \/ \E id \in PostIds, req \in PostRequests : UpdatePostReq(id, req)
    \/ \E id \in PostIds, f \in 0..1 : DeletePostReq(id, f)
    \/ \E id \in CategoryIds : DeleteCategoryReq(id)

Spec == Init /\ [][NextWrite]_vars

-----------------------------------------------------------------------------
(* The write workflow: properties.                                         *)

\* The integers a categories payload resolves to.
CategoryIdSet(req) == Range(ParseCategories(req.categories).ids)

\* The normalized names of a tag list.
NormalizedTags(req) ==
    IF req.tags.kind = "json"
    THEN {trim(toLowerCase(e.text)) : e \in Range(req.tags.items)}
    ELSE {}

\* Post id of database d carries the request and all of its links.
CompletePost(d, id, req) ==
    /\ \E p \in d.Posts : /\ p.id = id
                          /\ p.title = req.title
                          /\ p.slug = Slugify(req.title)
                          /\ p.status = StatusOrDraft(req.status)
    /\ {l \in d.Post_Categories : l[1] = id}
           = {<<id, c>> : c \in CategoryIdSet(req)}
    /\ \A l \in d.Post_Tags : l[1] = id => \E t \in d.Tags : t.id = l[2]
    /\ {t.name : t \in {x \in d.Tags : <<id, x.id>> \in d.Post_Tags}}
           = NormalizedTags(req)

\* From database d to e nothing changed but post id, its links and the tags
\* the request names.
OnlyPostChanged(d, e, id, req) ==
    /\ {p \in e.Posts : p.id # id} = {p \in d.Posts : p.id # id}
    /\ {l \in e.Post_Categories : l[1] # id} = {l \in d.Post_Categories : l[1] # id}
    /\ {l \in e.Post_Tags : l[1] # id} = {l \in d.Post_Tags : l[1] # id}
    /\ e.Categories = d.Categories
    /\ e.Comments = d.Comments
    /\ d.Tags \subseteq e.Tags
    /\ {t.name : t \in e.Tags \ d.Tags} \subseteq NormalizedTags(req)

AllOrNothing(d, r, id, req) ==
    IF r.status = 200
    THEN CompletePost(r.db, id, req) /\ OnlyPostChanged(d, r.db, id, req)
    ELSE Tables(r.db) = Tables(d)

\* C1: whatever a create or update request does and wherever it fails, the
\* database after it holds either the post with all of its category and tag
\* links, or exactly the rows it held before the request.
C1_AtomicPostWrite ==
    \A req \in PostRequests :
        /\ \E r \in {CreatePost(DB, req, "alice")} :
               AllOrNothing(DB, r, r.id, req)
        /\ \A id \in PostIds :
               \E r \in {UpdatePost(DB, id, req)} : AllOrNothing(DB, r, id, req)

\* A create request failed after it had taken a post id and a tag id: the
\* post row and the tag row it wrote are gone.
C1_Witness ==
    /\ last.op = "createPost" /\ last.status = 500
    /\ posts_id_seq > 0 /\ \A p \in Posts : p.id # posts_id_seq
    /\ tags_id_seq > Cardinality(DefaultTags)
    /\ \A t \in Tags : t.id # tags_id_seq

\* The request has no title, no content, or categories that give no integer.
InvalidInput(req) ==
    \/ req.title = <<>>
    \/ req.content = <<>>
    \/ req.categories.kind \notin {"json", "array"}
    \/ \A i \in DOMAIN req.categories.items :
           DigitPrefix(TrimStart(req.categories.items[i])) = <<>>

\* C2: a create or update request without title or content, or whose
\* categories do not parse or resolve to no integer, is answered 400 and
\* leaves every table as it was.
C2_InvalidInputRejected ==
    \A req \in PostRequests :
        InvalidInput(req) =>
            /\ \E r \in {CreatePost(DB, req, "alice")} :
                   r.status = 400 /\ Tables(r.db) = Tables(DB)
            /\ \A id \in PostIds :
                   \E r \in {UpdatePost(DB, id, req)} :
                       r.status = 400 /\ Tables(r.db) = Tables(DB)

\* An update of an existing post with unparsable categories was refused.
C2_Witness ==
    /\ last.op = "updatePost" /\ last.status = 400
    /\ last.message = "Invalid categories format"
    /\ \E p \in Posts : p.id = last.id

SameTagThriceRequest == [BaseRequest EXCEPT !.tags = SameTagThrice]

\* C7: a create request whose tags are ["JS", " js ", "Js"] succeeds and
\* leaves exactly one Tag row named js and exactly one Post_Tags row of the
\* new post, linking that tag.
C7_SameTagOnce ==
    [][ CreatePostReq(SameTagThriceRequest, "alice") =>
          /\ last'.status = 200
          /\ Cardinality({t \in Tags' : t.name = <<"j","s">>}) = 1
          /\ \E t \in Tags' :
                 /\ t.name = <<"j","s">>
                 /\ {l \in Post_Tags' : l[1] = last'.id} = {<<last'.id, t.id>>} ]_vars

\* C6: deleting a category that N >= 1 Post_Categories rows reference is
\* refused with status 400 and a message reporting N, and changes nothing;
\* deleting an existing category no row references removes that category
\* and nothing else.
C6_CategoryDeleteGuard ==
    \A id \in CategoryIds :
        \E r \in {DeleteCategory(DB, id)} :
            LET N == Cardinality({l \in Post_Categories : l[2] = id})
            IN  /\ N >= 1 =>
                       r.status = 400 /\ r.count = N /\ Tables(r.db) = Tables(DB)
                /\ (N = 0 /\ \E c \in Categories : c.id = id) =>
                       /\ r.status = 200
                       /\ r.db.Categories = {c \in Categories : c.id # id}
                       /\ [r.db EXCEPT !.Categories = Categories] = DB

\* A delete of a category that two posts use was refused, reporting 2.
C6_Witness ==
    /\ last.op = "deleteCategory" /\ last.status = 400 /\ last.count = 2
    /\ Cardinality({l \in Post_Categories : l[2] = last.id}) = 2

-----------------------------------------------------------------------------
(* The public site: posts of each status, comments, and the pages that     *)
(* show them, one request at a time.                                       *)

Hi == <<"h","i">>
Yo == <<"y","o">>
Slugs == {Hi, Yo, <<"n","o">>}

\* The posts of the public site: Hi in each status, Yo published.
BlogRequest ==
    [BaseRequest EXCEPT !.tags = Payload("json", << TagText(<<"J","S">>) >>)]

BlogRequests ==
    {[BlogRequest EXCEPT !.status = s] : s \in {"published", "draft", "private"}}
        \cup {[BlogRequest EXCEPT !.title = <<"Y","o">>]}

\* The comment ids as the text of a form field.
CommentIdTexts == {<<DigitChars[id + 1]>> : id \in CommentIds}

\* The bodies of the comment submissions: [slug, content, parent_id].
CommentRequests ==
    [slug : Slugs, content : {<<"c">>}, parent_id : {<<>>} \cup CommentIdTexts]
        \cup {[slug |-> Hi, content |-> <<" ">>, parent_id |-> <<>>],
              [slug |-> Hi, content |-> <<"c">>, parent_id |-> <<"x">>]}

ReadOnly ==
    UNCHANGED <<Posts, Categories, Tags, Post_Categories, Post_Tags, Comments,
                posts_id_seq, tags_id_seq, categories_id_seq, comments_id_seq,
                inflight>>

\* POST /post/:slug/comment
AddCommentReq(c, username) ==
    \E r \in {AddComment(DB, c.slug, c.content, c.parent_id, username)} :
        /\ InBounds(r.db) /\ Install(r.db)
        /\ last' = [op |-> "addComment", status |-> r.status,
                    id |-> NULL, message |-> r.message, slug |-> c.slug,
                    parent_id |-> c.parent_id]
        /\ UNCHANGED inflight

\* PUT /dashboard/api/comments/:id/:action
ModerateCommentReq(id, action) ==
    \E r \in {ModerateComment(DB, id, action)} :
        /\ Install(r.db)
        /\ last' = [op |-> "moderateComment", status |-> r.status, id |-> id,
                    message |-> ""]
        /\ UNCHANGED inflight

\* DELETE /dashboard/api/comments/:id
DeleteCommentReq(id) ==
    \E r \in {DeleteComment(DB, id)} :
        /\ Install(r.db)
        /\ last' = [op |-> "deleteComment", status |-> r.status, id |-> id,
                    message |-> "",
                    removed |-> Cardinality(Comments \ r.db.Comments)]
        /\ UNCHANGED inflight

\* GET /post/:slug
GetPostReq(slug, viewer) ==
    \E r \in {GetPost(DB, slug, viewer)} :
        /\ last' = [op |-> "getPost", status |-> r.status, id |-> r.post,
                    message |-> "", viewer |-> viewer]
        /\ ReadOnly

Listed(op, posts) ==
    /\ last' = [op |-> op, status |-> 200, id |-> NULL, message |-> "",
                posts |-> posts]
    /\ ReadOnly

\* GET /
HomeReq(viewer) == Listed("home", Home(DB, viewer))

\* GET /author/:username
AuthorArchiveReq(username, viewer) ==
    Listed("author", AuthorArchive(DB, username, viewer))

\* GET /category/:categoryName
CategoryArchiveReq(categoryName, viewer) ==
    Listed("category", CategoryArchive(DB, categoryName, viewer).posts)

\* GET /tag/:tagName
TagArchiveReq(tagName, viewer) ==
    Listed("tag", TagArchive(DB, tagName, viewer).posts)

\* GET /bookmarks?ids=[...]
BookmarksReq(ids, viewer) == Listed("bookmarks", Bookmarks(DB, ids, viewer))

\* generateSitemaps(): the posts sitemap is rewritten.
GenerateSitemaps ==
    /\ last' = [op |-> "sitemap", status |-> 200, id |-> NULL, message |-> "",
                posts |-> SitemapPosts(DB)]
    /\ ReadOnly

AllBookmarks == Payload("json", << <<"1">>, <<"2">> >>)

NextBlog ==
    \/ \E req \in BlogRequests : CreatePostReq(req, "alice")
    \/ \E id \in 1..MaxPostId, req \in BlogRequests : UpdatePostReq(id, req)
    \/ \E id \in 1..MaxPostId : DeletePostReq(id, 0)
    \/ \E c \in CommentRequests, u \in Users : AddCommentReq(c, u)
    \/ \E id \in CommentIds, a \in {"approve", "unapprove", "hide"} :
           ModerateCommentReq(id, a)
    \/ \E id \in CommentIds : DeleteCommentReq(id)
    \/ \E slug \in Slugs, viewer \in Viewers : GetPostReq(slug, viewer)
    \/ \E viewer \in Viewers : HomeReq(viewer)
    \/ \E viewer \in Viewers : AuthorArchiveReq("alice", viewer)
    \/ \E viewer \in Viewers :
           CategoryArchiveReq(<<"T","e","c","h","n","o","l","o","g","y">>, viewer)
    \/ \E viewer \in Viewers : TagArchiveReq(<<"j","s">>, viewer)
    \/ \E viewer \in Viewers : BookmarksReq(AllBookmarks, viewer)
    \/ GenerateSitemaps

SpecBlog == Init /\ [][NextBlog]_vars

-----------------------------------------------------------------------------
(* The public site: properties.                                            *)

\* What the visibility rule gives viewer for comment c.
VisibleTo(c, viewer) ==
    IF viewer.role = "SuperAdmin" THEN TRUE
    ELSE IF viewer # Anonymous THEN c.is_approved \/ c.UserName = viewer.username
    ELSE c.is_approved

\* C3: the comments a rendered post page returns are, for a SuperAdmin, all
\* comments of the post; for another logged-in viewer, those approved or
\* written by the viewer; for an anonymous viewer, those approved.  Whether
\* the parent of a comment is returned plays no part.
C3_CommentVisibility ==
    \A slug \in Slugs, viewer \in Viewers :
        \E r \in {GetPost(DB, slug, viewer)} :
            r.status = 200 =>
                {c.id : c \in r.comments}
                    = {c.id : c \in {x \in Comments :
                                       x.post_id = r.post /\ VisibleTo(x, viewer)}}

\* bob was shown a page with his own pending reply to a pending comment of
\* alice, which the page does not show him.
C3_Witness ==
    /\ last.op = "getPost" /\ last.status = 200
    /\ last.viewer = [username |-> "bob", role |-> "NormalUser"]
    /\ \E c, p \in Comments :
           /\ c.post_id = last.id /\ c.parent_id = p.id
           /\ c.UserName = "bob" /\ ~c.is_approved
           /\ p.UserName = "alice" /\ ~p.is_approved

\* C4: GET /post/:slug renders a private post for its owner and for a
\* SuperAdmin; every other viewer, anonymous included, gets 403 with no
\* post, comments or tags; a published post is rendered for every viewer.
C4_PrivatePostAccess ==
    \A slug \in Slugs, viewer \in Viewers :
        \A p \in Posts :
            p.slug = slug =>
                \E r \in {GetPost(DB, slug, viewer)} :
                    /\ p.status = "private" =>
                           IF viewer.username = p.UserName \/ viewer.role = "SuperAdmin"
                           THEN r.status = 200 /\ r.post = p.id
                           ELSE /\ r.status = 403 /\ r.post = NULL
                                /\ r.comments = {} /\ r.tags = {}
                    /\ p.status = "published" => r.status = 200 /\ r.post = p.id

\* bob, no SuperAdmin, was refused the private post of alice, which has a
\* comment.
C4_Witness ==
    /\ last.op = "getPost" /\ last.status = 403
    /\ last.viewer = [username |-> "bob", role |-> "NormalUser"]
    /\ \E p \in Posts : /\ p.status = "private" /\ p.UserName = "alice"
                        /\ \E c \in Comments : c.post_id = p.id

Drafts == {p.id : p \in {x \in Posts : x.status = "draft"}}

\* C5: for every viewer, the home listing, the author, category and tag
\* archives, the bookmarks and the single post page return no draft post,
\* and every slug of the posts sitemap is the slug of a published post.
C5_DraftsNeverPublic ==
    /\ \A viewer \in Viewers :
           /\ Home(DB, viewer) \cap Drafts = {}
           /\ \A u \in Users : AuthorArchive(DB, u, viewer) \cap Drafts = {}
           /\ \A c \in Categories :
                  CategoryArchive(DB, c.name, viewer).posts \cap Drafts = {}
           /\ \A t \in Tags : TagArchive(DB, t.name, viewer).posts \cap Drafts = {}
           /\ Bookmarks(DB, AllBookmarks, viewer) \cap Drafts = {}
           /\ \A slug \in Slugs : GetPost(DB, slug, viewer).post \notin Drafts
    /\ \A slug \in SitemapPosts(DB) :
           \A p \in Posts : p.slug = slug => p.status = "published"

\* The tag archive of js was listed while a draft and a published post both
\* carry that tag: the listing holds a post and no draft.
C5_Witness ==
    /\ last.op = "tag" /\ last.posts # {}
    /\ \E p, q \in Posts :
           /\ p.status = "draft" /\ q.status = "published"
           /\ \E t \in Tags : /\ t.name = <<"j","s">>
                              /\ <<p.id, t.id>> \in Post_Tags
                              /\ <<q.id, t.id>> \in Post_Tags

\* C8: a comment submitted by a logged-in viewer, whoever it is, to a slug
\* with no post or with a draft or private post is answered 404 (400 when
\* its content is blank) and leaves the Comments table unchanged.
C8_CommentNeedsPublishedPost ==
    \A c \in CommentRequests, viewer \in Viewers \ {Anonymous} :
        (\A p \in Posts : p.slug = c.slug => p.status \in {"draft", "private"}) =>
            \E r \in {AddComment(DB, c.slug, c.content, c.parent_id,
                                 viewer.username)} :
                /\ r.status = IF trim(c.content) = <<>> THEN 400 ELSE 404
                /\ r.db.Comments = Comments

\* A comment to a private post that has a comment was refused 404.
C8_Witness ==
    /\ last.op = "addComment" /\ last.status = 404
    /\ \E p \in Posts : /\ p.slug = last.slug /\ p.status = "private"
                        /\ \E c \in Comments : c.post_id = p.id

\* The parent_id text names the comment with this id.
Names(text, id) ==
    text # <<>> /\ DigitPrefix(text) = text /\ DigitsValue(text) = id

\* C9: a comment submitted to the slug of a published post with a parent_id
\* that names no existing comment, or a comment of another post, is
\* answered 400 and leaves the Comments table unchanged.
C9_InvalidParentRejected ==
    [][ \A c \in CommentRequests, u \in Users :
          ( /\ AddCommentReq(c, u)
            /\ c.parent_id # <<>>
            /\ \E p \in Posts :
                   /\ p.slug = c.slug /\ p.status = "published"
                   /\ \A k \in Comments :
                          Names(c.parent_id, k.id) => k.post_id # p.id )
          => last'.status = 400 /\ Comments' = Comments ]_vars

-----------------------------------------------------------------------------
(* Comment submissions in flight.  POST /post/:slug/comment awaits three   *)
(* statements on the pool, and the requests of other sessions run between  *)
(* them.                                                                   *)

CommentSubmissions ==
    [slug : {Hi, Yo}, content : {<<"c">>}, parent_id : {<<>>, <<"1">>}]

Responded(c) ==
    last' = [op |-> "addComment", status |-> c.status, id |-> NULL,
             message |-> c.message, slug |-> c.slug, parent_id |-> c.parent_id]

TablesUnchanged ==
    UNCHANGED <<Posts, Categories, Tags, Post_Categories, Post_Tags, Comments,
                posts_id_seq, tags_id_seq, categories_id_seq, comments_id_seq>>

\* The handler's next state x of the request in flight c is kept, or its
\* response is sent.
Continue(c, x) ==
    IF x.pc = "done"
    THEN inflight' = inflight \ {c} /\ Responded(x)
    ELSE inflight' = (inflight \ {c}) \cup {x} /\ UNCHANGED last

\* The request arrives: the content is validated and the post query is sent.
SubmitComment(c, username) ==
    /\ Cardinality(inflight) < MaxInFlight
    /\ Continue(c, CommentValidate(NewComment(c.slug, c.content, c.parent_id,
                                               username)))
    /\ TablesUnchanged

\* SELECT id FROM Posts ... is answered.
FindPostStep(c) ==
    /\ c.pc = "post"
    /\ Continue(c, CommentFindPost(DB, c))
    /\ TablesUnchanged

\* SELECT id FROM Comments ... is answered.
CheckParentStep(c) ==
    /\ c.pc = "parent"
    /\ Continue(c, CommentCheckParent(DB, c))
    /\ TablesUnchanged

\* INSERT INTO Comments ... is answered.
InsertStep(c) ==
    /\ c.pc = "insert"
    /\ \E r \in {CommentInsert(DB, c)} :
           /\ InBounds(r.db) /\ Install(r.db)
           /\ inflight' = inflight \ {c}
           /\ Responded(r.c)

NextConcurrent ==
    \/ \E req \in BlogRequests : CreatePostReq(req, "alice")
    \/ \E id \in 1..MaxPostId, req \in BlogRequests : UpdatePostReq(id, req)
    \/ \E id \in 1..MaxPostId : DeletePostReq(id, 0)
    \/ \E c \in CommentSubmissions : SubmitComment(c, "bob")
    \/ \E c \in inflight : FindPostStep(c)
    \/ \E c \in inflight : CheckParentStep(c)
    \/ \E c \in inflight : InsertStep(c)
    \/ \E id \in 1..MaxCommentId, a \in {"approve", "unapprove"} :
           ModerateCommentReq(id, a)
    \/ \E id \in 1..MaxCommentId : DeleteCommentReq(id)

SpecConcurrent == Init /\ [][NextConcurrent]_vars

\* C10: whatever the interleaving of comment submissions, moderation and
\* deletion and of post creation, update and deletion, every comment with a
\* parent_id has a parent comment of the same post, and the post of every
\* comment exists.
C10_CommentReferences ==
    \A c \in Comments :
        /\ \E p \in Posts : p.id = c.post_id
        /\ c.parent_id # NULL =>
               \E k \in Comments : k.id = c.parent_id /\ k.post_id = c.post_id

\* A reply passed the parent check, the parent was deleted before the
\* insert, and the insert was refused; another reply is stored.
C10_Witness ==
    /\ last.op = "addComment" /\ last.status = 500
    /\ last.parent_id = <<"1">>
    /\ \A c \in Comments : c.id # 1

-----------------------------------------------------------------------------
(* The post page: reply counts.                                            *)

\* The database of the thread example: one published post with the
\* approved comments 1 (root), 2 and 3 (replies to 1) and 4 (reply to 2).
ThreadExample ==
    LET row(id, parent) ==
            [id |-> id, content |-> <<"c">>, UserName |-> "bob", post_id |-> 1,
             parent_id |-> parent, is_approved |-> TRUE]
    IN  [Posts |-> {[id |-> 1, title |-> <<"H","i">>, slug |-> Hi,
                     content |-> <<"C">>, status |-> "published",
                     UserName |-> "alice"]},
         Categories |-> DefaultCategories, Tags |-> DefaultTags,
         Post_Categories |-> {<<1, 1>>}, Post_Tags |-> {},
         Comments |-> {row(1, NULL), row(2, 1), row(3, 1), row(4, 2)},
         posts_id_seq |-> 1, tags_id_seq |-> Cardinality(DefaultTags),
         categories_id_seq |-> Cardinality(DefaultCategories),
         comments_id_seq |-> 4]

\* replyCount of each returned comment counts the returned replies to it.
CountsReturnedReplies(r) ==
    \A c \in r.comments :
        c.replyCount = Cardinality({x \in r.comments : x.parent_id = c.id})

\* C11: on every rendered post page, for every viewer, replyCount of each
\* returned comment is the number of returned comments whose parent_id is
\* its id, so replies hidden from the viewer are not counted; on the thread
\* example the counts are 2, 1, 0, 0.
C11_ReplyCount ==
    /\ \A slug \in Slugs, viewer \in Viewers :
           \E r \in {GetPost(DB, slug, viewer)} :
               r.status = 200 => CountsReturnedReplies(r)
    /\ \A viewer \in Viewers :
           \E r \in {GetPost(ThreadExample, Hi, viewer)} :
               /\ CountsReturnedReplies(r)
               /\ {<<c.id, c.replyCount>> : c \in r.comments}
                      = {<<1, 2>>, <<2, 1>>, <<3, 0>>, <<4, 0>>}

\* The anonymous viewer was shown a page with an approved comment that has
\* a pending reply: the reply is not returned and not counted.
C11_Witness ==
    /\ last.op = "getPost" /\ last.status = 200 /\ last.viewer = Anonymous
    /\ \E c, p \in Comments :
           /\ p.post_id = last.id /\ p.is_approved
           /\ c.parent_id = p.id /\ ~c.is_approved

-----------------------------------------------------------------------------
(* Moderation.                                                             *)

\* Every comment returned to a viewer who is neither its author nor a
\* SuperAdmin is approved.
OthersSeeApprovedOnly ==
    \A slug \in Slugs, viewer \in Viewers :
        \A c \in GetPost(DB, slug, viewer).comments :
            (viewer.role # "SuperAdmin" /\ viewer.username # c.UserName)
                => c.is_approved

\* C12: a comment starts with is_approved = FALSE; only an approve action
\* on it makes it approved; an unapprove action leaves it unapproved; and a
\* comment that is not approved is returned to no viewer but its author and
\* the SuperAdmins.
C12_PendingUntilApproved ==
    /\ []OthersSeeApprovedOnly
    /\ [][ /\ \A c \in Comments' :
                  (\A o \in Comments : o.id # c.id) => ~c.is_approved
           /\ \A c \in Comments' :
                  (c.is_approved /\ \A o \in Comments :
                                        o.id = c.id => ~o.is_approved)
                      => ModerateCommentReq(c.id, "approve")
           /\ \A id \in CommentIds :
                  ModerateCommentReq(id, "unapprove") =>
                      \A c \in Comments' : c.id = id => ~c.is_approved ]_vars

\* A moderation of an existing comment of bob succeeded and left it
\* unapproved: the action was unapprove.
C12_Witness ==
    /\ last.op = "moderateComment" /\ last.status = 200
    /\ \E c \in Comments : c.id = last.id /\ c.UserName = "bob" /\ ~c.is_approved

-----------------------------------------------------------------------------
(* Post deletion.                                                          *)

\* From database d to e the post id and the rows that reference it are
\* gone and nothing else changed.
PostRemoved(d, e, id) ==
    /\ e.Posts = {p \in d.Posts : p.id # id}
    /\ e.Comments = {c \in d.Comments : c.post_id # id}
    /\ e.Post_Categories = {l \in d.Post_Categories : l[1] # id}
    /\ e.Post_Tags = {l \in d.Post_Tags : l[1] # id}
    /\ e.Categories = d.Categories /\ e.Tags = d.Tags

-----------------------------------------------------------------------------
(* Tag deletion.  router.delete('/api/tags/:id') sends three statements on *)
(* the pool, outside any transaction; the requests of other sessions run   *)
(* between them.  A request in flight is [id, pc, count, status, existed,  *)
(* removed]: count is the number the handler read; existed and removed     *)
(* observe the request: whether the tag was stored when its COUNT was      *)
(* answered, and the number of Post_Tags rows its statements have removed  *)
(* so far.                                                                 *)

\* SELECT COUNT(*) FROM Post_Tags WHERE tag_id = $1.
SqlCountPostTags(db, tag_id) ==
    Ok(db, Cardinality({l \in db.Post_Tags : l[2] = tag_id}))

\* DELETE FROM Post_Tags WHERE tag_id = $1: ret is rowCount.
SqlDeletePostTagsOfTag(db, tag_id) ==
    Ok([db EXCEPT !.Post_Tags = {l \in @ : l[2] # tag_id}],
       Cardinality({l \in db.Post_Tags : l[2] = tag_id}))

\* DELETE FROM tags WHERE id = $1, with the ON DELETE CASCADE of Post_Tags:
\* ret is rowCount.
SqlDeleteTag(db, id) ==
    Ok([db EXCEPT !.Tags = {t \in @ : t.id # id},
                  !.Post_Tags = {l \in @ : l[2] # id}],
       Cardinality({t \in db.Tags : t.id = id}))

NewTagDelete(id) ==
    [id |-> id, pc |-> "count", count |-> 0, status |-> 0, existed |-> FALSE,
     removed |-> 0]

\* const count = parseInt(postCount.rows[0].count)
TagDeleteCount(db, c) ==
    LET postCount == SqlCountPostTags(db, c.id)
    IN  [c EXCEPT !.count = postCount.ret,
                  !.pc = IF postCount.ret > 0 THEN "unlink" ELSE "delete",
                  !.existed = \E t \in db.Tags : t.id = c.id]

\* if (count > 0) DELETE FROM Post_Tags ...: [db, c].
TagDeleteUnlink(db, c) ==
    LET r == SqlDeletePostTagsOfTag(db, c.id)
    IN  [db |-> r.db, c |-> [c EXCEPT !.removed = @ + r.ret, !.pc = "delete"]]

\* DELETE FROM tags ...; 404 when no row was deleted: [db, c].
TagDeleteRow(db, c) ==
    LET result == SqlDeleteTag(db, c.id)
        links == Cardinality({l \in db.Post_Tags : l[2] = c.id})
    IN  [db |-> result.db,
         c |-> [c EXCEPT !.removed = @ + links, !.pc = "done",
                         !.status = IF result.ret = 0 THEN 404 ELSE 200]]

\* The handler run from the request in flight c to its response with no
\* other request in between: [db, c].
RECURSIVE RunTagDelete(_, _)
RunTagDelete(db, c) ==
    CASE c.pc = "count" -> RunTagDelete(db, TagDeleteCount(db, c))
      [] c.pc = "unlink" ->
            LET r == TagDeleteUnlink(db, c) IN RunTagDelete(r.db, r.c)
      [] c.pc = "delete" -> TagDeleteRow(db, c)
      [] OTHER -> [db |-> db, c |-> c]

\* router.delete('/api/tags/:id') as one request: [db, status, count]; a
\* count of 0 stands for the message without a count.
DeleteTag(db, id) ==
    LET r == RunTagDelete(db, NewTagDelete(id))
    IN  [db |-> r.db, status |-> r.c.status,
         count |-> IF r.c.status = 200 THEN r.c.count ELSE 0]

\* The tag ids of the requests: a default tag, the tags the posts create,
\* and an id no tag has.
TagIds == {1} \cup (Cardinality(DefaultTags) + 1)..(Cardinality(DefaultTags) + MaxNewTags + 1)

\* The request arrives and its COUNT is answered.
TagDeleteCountStep(id) ==
    /\ Cardinality(inflight) < MaxInFlight
    /\ inflight' = inflight \cup {TagDeleteCount(DB, NewTagDelete(id))}
    /\ TablesUnchanged /\ UNCHANGED last

\* DELETE FROM Post_Tags ... is answered.
TagDeleteUnlinkStep(c) ==
    /\ c.pc = "unlink"
    /\ \E r \in {TagDeleteUnlink(DB, c)} :
           /\ Install(r.db)
           /\ inflight' = (inflight \ {c}) \cup {r.c}
           /\ UNCHANGED last

\* DELETE FROM tags ... is answered and the response is sent.
TagDeleteRowStep(c) ==
    /\ c.pc = "delete"
    /\ \E r \in {TagDeleteRow(DB, c)} :
           /\ Install(r.db)
           /\ inflight' = inflight \ {c}
           /\ last' = [op |-> "deleteTag", status |-> r.c.status, id |-> c.id,
                       message |-> "", count |-> r.c.count,
                       existed |-> r.c.existed, removed |-> r.c.removed]

NextTags ==
    \/ \E req \in BlogRequests : CreatePostReq(req, "alice")
    \/ \E id \in 1..MaxPostId, req \in BlogRequests : UpdatePostReq(id, req)
    \/ \E id \in 1..MaxPostId : DeletePostReq(id, 0)
    \/ \E id \in TagIds : TagDeleteCountStep(id)
    \/ \E c \in inflight : TagDeleteUnlinkStep(c)
    \/ \E c \in inflight : TagDeleteRowStep(c)

SpecTags == Init /\ [][NextTags]_vars

\* C14: the delete of a stored tag succeeds whatever posts reference it,
\* reports the number of Post_Tags rows the request removed, and reports no
\* number when it removed none.
C14_TagDeleteCount ==
    (last.op = "deleteTag" /\ last.existed) =>
        last.status = 200 /\ last.count = last.removed


-----------------------------------------------------------------------------
(* The pooled client of post create, update and delete.                    *)

\* Where the storage fails: nowhere, at one statement, or from one statement
\* on.
PoolFailures == (0 - MaxFail)..MaxFail

\* One request for every exit of the handlers: a complete one that creates a
\* tag, one for each validation failure, and one whose tags make the handler
\* throw after the post row is written; and complete ones with no status and
\* with a status that is none of draft, published, private.
PoolShapes ==
    {[BaseRequest EXCEPT !.tags = Payload("json", << TagText(<<"J","S">>) >>)],
     [BaseRequest EXCEPT !.status = ""],
     [BaseRequest EXCEPT !.status = "archived"],
     [BaseRequest EXCEPT !.content = <<>>],
     [BaseRequest EXCEPT !.categories = Payload("badjson", <<>>)],
     [BaseRequest EXCEPT !.categories = NoPayload],
     [BaseRequest EXCEPT !.tags = Payload("badjson", <<>>)]}

PoolRequests == {[r EXCEPT !.fail = f] : r \in PoolShapes, f \in PoolFailures}

\* POST /dashboard/api/posts, with what was done with the client.
PoolCreatePostReq(req) ==
    \E r \in {CreatePost(DB, req, "alice")} :
        /\ InBounds(r.db)
        /\ Install(r.db)
        /\ last' = [op |-> "createPost", status |-> r.status, id |-> r.id,
                    message |-> r.message, log |-> r.log]
        /\ UNCHANGED inflight

\* PUT /dashboard/api/posts/:id
PoolUpdatePostReq(id, req) ==
    \E r \in {UpdatePost(DB, id, req)} :
        /\ InBounds(r.db)
        /\ Install(r.db)
        /\ last' = [op |-> "updatePost", status |-> r.status, id |-> id,
                    message |-> r.message, log |-> r.log]
        /\ UNCHANGED inflight

\* DELETE /dashboard/api/posts/:id
PoolDeletePostReq(id, fail) ==
    \E r \in {DeletePost(DB, id, fail)} :
        /\ Install(r.db)
        /\ last' = [op |-> "deletePost", status |-> r.status, id |-> id,
                    message |-> r.message, log |-> r.log]
        /\ UNCHANGED inflight

NextPool ==
    \/ \E req \in PoolRequests : PoolCreatePostReq(req)
    \/ \E id \in PostIds, req \in PoolRequests : PoolUpdatePostReq(id, req)
    \/ \E id \in PostIds, f \in PoolFailures : PoolDeletePostReq(id, f)

SpecPool == Init /\ [][NextPool]_vars

\* The positions of an event in a client log.
Positions(log, event) == {i \in DOMAIN log : log[i] = event}

\* C15: in post create, update and delete the client checked out at the
\* start is released exactly once on every exit (success, validation
\* failure, not found, storage failure, failure of the ROLLBACK itself), the
\* release is the last thing done with the client, and on every exit other
\* than success a ROLLBACK was sent before the release.
C15_ClientReleased ==
    last.op \in {"createPost", "updatePost", "deletePost"} =>
        /\ Positions(last.log, "connect") = {1}
        /\ Positions(last.log, "release") = {Len(last.log)}
        /\ last.status # 200 => Positions(last.log, "ROLLBACK") # {}
        /\ last.status = 200 => last.log[Len(last.log) - 1] = "COMMIT"

\* A validation failure whose ROLLBACK failed, and the ROLLBACK of the catch
\* block failed as well: the request got no response.
C15_Witness ==
    /\ last.op = "createPost"
    /\ last.status = NoResponse
    /\ Cardinality(Positions(last.log, "ROLLBACK")) = 2


-----------------------------------------------------------------------------
(* One visibility decision for every public route.                         *)

\* Would GET /post/:slug show post p to the viewer?
ShownAlone(p, viewer) == GetPost(DB, p.slug, viewer).status = 200

\* C16: a post is listed on the home page, on its author's archive, on the
\* archives of its categories and tags and among the bookmarks exactly when
\* the single-post route shows it to the same viewer; so a private post is
\* listed for its owner as for a SuperAdmin.
C16_SameVisibility ==
    \A viewer \in Viewers, p \in Posts :
        /\ p.id \in Home(DB, viewer) <=> ShownAlone(p, viewer)
        /\ p.id \in AuthorArchive(DB, p.UserName, viewer) <=> ShownAlone(p, viewer)
        /\ p.id \in Bookmarks(DB, AllBookmarks, viewer) <=> ShownAlone(p, viewer)
        /\ \A c \in Categories :
               <<p.id, c.id>> \in Post_Categories =>
                   (p.id \in CategoryArchive(DB, c.name, viewer).posts
                        <=> ShownAlone(p, viewer))
        /\ \A t \in Tags :
               <<p.id, t.id>> \in Post_Tags =>
                   (p.id \in TagArchive(DB, t.name, viewer).posts
                        <=> ShownAlone(p, viewer))


-----------------------------------------------------------------------------
(* The status of a post.                                                   *)

\* C17: every stored post has one of the statuses draft, published, private:
\* a create or update stores the submitted status when it is one of these and
\* draft otherwise.
C17_StatusDomain ==
    \A p \in Posts : p.status \in {"draft", "published", "private"}


-----------------------------------------------------------------------------
(* Slug derivation on its own.                                             *)

\* The characters of the titles: a capital, a small letter, a digit, a
\* hyphen, a blank and a punctuation mark.
TitleChars == {"A", "b", "1", "-", " ", "!"}

RECURSIVE TextsUpTo(_)
TextsUpTo(n) ==
    IF n = 0 THEN {<<>>}
    ELSE LET shorter == TextsUpTo(n - 1)
         IN  shorter \cup {Append(t, c) : t \in shorter, c \in TitleChars}

SlugTitles == TextsUpTo(MaxTitleLen)

\* A title arrives in the body of a create or update request.
InitSlug ==
    /\ Posts = {}
    /\ Categories = DefaultCategories
    /\ Tags = DefaultTags
    /\ Post_Categories = {}
    /\ Post_Tags = {}
    /\ Comments = {}
    /\ posts_id_seq = 0
    /\ tags_id_seq = Cardinality(DefaultTags)
    /\ categories_id_seq = Cardinality(DefaultCategories)
    /\ comments_id_seq = 0
    /\ inflight = {}
    /\ \E title \in SlugTitles : last = [op |-> "title", title |-> title]

\* const slug = title.toLowerCase().replace(...).replace(...)
DeriveSlug ==
    /\ last.op = "title"
    /\ last' = [op |-> "slug", title |-> last.title, slug |-> Slugify(last.title)]
    /\ ReadOnly

NextSlug == DeriveSlug

SpecSlug == InitSlug /\ [][NextSlug]_vars

\* The maximal runs of lowercase letters and digits of a text, in order; cur
\* is the run being read.
RECURSIVE AlnumRuns(_, _)
AlnumRuns(s, cur) ==
    LET done == IF cur = <<>> THEN <<>> ELSE <<cur>>
    IN  IF s = <<>> THEN done
        ELSE IF IsSlugChar(Head(s)) THEN AlnumRuns(Tail(s), Append(cur, Head(s)))
        ELSE done \o AlnumRuns(Tail(s), <<>>)

\* The runs joined by single hyphens.
RECURSIVE JoinHyphen(_)
JoinHyphen(runs) ==
    IF runs = <<>> THEN <<>>
    ELSE IF Len(runs) = 1 THEN runs[1]
    ELSE runs[1] \o <<"-">> \o JoinHyphen(Tail(runs))

\* Only lowercase letters, digits and single hyphens, none of them first or
\* last.
WellFormedSlug(slug) ==
    /\ \A i \in DOMAIN slug : slug[i] \in SlugCharSet \cup {"-"}
    /\ \A i \in 1..(Len(slug) - 1) : ~(slug[i] = "-" /\ slug[i + 1] = "-")
    /\ slug # <<>> => slug[1] # "-" /\ slug[Len(slug)] # "-"

HelloWorld2024 ==
    <<"H","e","l","l","o",","," ","W","o","r","l","d","!","!"," ","2","0","2","4">>

\* C18: the slug derived from a title is the runs of letters and digits of
\* the lowercased title joined by single hyphens: it holds only lowercase
\* letters, digits and single hyphens, has no hyphen first or last, deriving
\* it again from the title or from the slug gives the same text, and
\* "Hello, World!! 2024" gives hello-world-2024.
C18_SlugShape ==
    /\ last.op = "slug" =>
           /\ last.slug = JoinHyphen(AlnumRuns(toLowerCase(last.title), <<>>))
           /\ WellFormedSlug(last.slug)
           /\ Slugify(last.title) = last.slug
           /\ Slugify(last.slug) = last.slug
    /\ Slugify(HelloWorld2024)
           = <<"h","e","l","l","o","-","w","o","r","l","d","-","2","0","2","4">>

\* The slug a-1 was derived from a title of four characters that ends with
\* a character that is no letter or digit.
C18_Witness ==
    /\ last.op = "slug"
    /\ last.slug = <<"a", "-", "1">>
    /\ Len(last.title) = 4
    /\ ~IsSlugChar(last.title[4])


-----------------------------------------------------------------------------
(* Slugs of the stored posts.                                              *)

\* Does another post than id carry the slug derived from the title?
SlugTaken(title, id) ==
    \E p \in Posts : p.id # id /\ p.slug = Slugify(title)

\* C19: no two posts have the same slug, the slug of every post is the one
\* derived from its current title, and a create or update whose derived slug
\* is the slug of another post fails and changes no table.
C19_SlugUnique ==
    /\ \A p, q \in Posts : p.slug = q.slug => p = q
    /\ \A p \in Posts : p.slug = Slugify(p.title)
    /\ \A req \in PostRequests :
           /\ SlugTaken(req.title, NULL) =>
                  \E r \in {CreatePost(DB, req, "alice")} :
                      r.status # 200 /\ Tables(r.db) = Tables(DB)
           /\ \A id \in PostIds :
                  SlugTaken(req.title, id) =>
                      \E r \in {UpdatePost(DB, id, req)} :
                          r.status # 200 /\ Tables(r.db) = Tables(DB)

\* A post was renamed to Yo by an update and has the slug yo, while another
\* post has the slug hi that the update had to leave alone.
C19_Witness ==
    /\ last.op = "updatePost" /\ last.status = 200
    /\ \E p, q \in Posts :
           /\ p.id = last.id /\ p.title = <<"Y","o">> /\ p.slug = <<"y","o">>
           /\ q.id # p.id /\ q.slug = <<"h","i">>


-----------------------------------------------------------------------------
(* Category and tag update, and requests for ids that do not exist.        *)

\* SELECT id FROM categories WHERE LOWER(name) = LOWER($1) AND id != $2
SqlSelectOtherCategory(db, name, id) ==
    Ok(db, {c.id : c \in {x \in db.Categories :
                             /\ toLowerCase(x.name) = toLowerCase(name)
                             /\ x.id # id}})

\* UPDATE categories SET name = $1, description = $2 WHERE id = $3; name is
\* UNIQUE.  ret is the rowCount.
SqlUpdateCategory(db, name, id) ==
    IF /\ \E c \in db.Categories : c.id = id
       /\ \E c \in db.Categories : c.id # id /\ c.name = name
    THEN Err(db)
    ELSE Ok([db EXCEPT !.Categories =
                {IF c.id = id THEN [c EXCEPT !.name = name] ELSE c : c \in @}],
            Cardinality({c \in db.Categories : c.id = id}))

\* router.put('/api/categories/:id'): every failure of the UPDATE is the
\* unique violation 23505, answered 400.
UpdateCategory(db, id, name) ==
    LET existing == SqlSelectOtherCategory(db, trim(name), id)
        result == SqlUpdateCategory(db, trim(name), id)
    IN  IF trim(name) = <<>> THEN [db |-> db, status |-> 400]
        ELSE IF existing.ret # {} THEN [db |-> db, status |-> 400]
        ELSE IF ~result.ok THEN [db |-> db, status |-> 400]
        ELSE IF result.ret = 0 THEN [db |-> result.db, status |-> 404]
        ELSE [db |-> result.db, status |-> 200]

\* SELECT id FROM tags WHERE name = $1 AND id != $2
SqlSelectOtherTag(db, name, id) ==
    Ok(db, {t.id : t \in {x \in db.Tags : x.name = name /\ x.id # id}})

\* UPDATE tags SET name = $1 WHERE id = $2; name is UNIQUE.
SqlUpdateTag(db, name, id) ==
    IF /\ \E t \in db.Tags : t.id = id
       /\ \E t \in db.Tags : t.id # id /\ t.name = name
    THEN Err(db)
    ELSE Ok([db EXCEPT !.Tags =
                {IF t.id = id THEN [t EXCEPT !.name = name] ELSE t : t \in @}],
            Cardinality({t \in db.Tags : t.id = id}))

\* router.put('/api/tags/:id')
\* Faulty variant: the name is stored as it was typed, trimmed only.
UpdateTagAsTyped(db, id, name) ==
    LET existing == SqlSelectOtherTag(db, trim(name), id)
        result == SqlUpdateTag(db, trim(name), id)
    IN  IF trim(name) = <<>> THEN [db |-> db, status |-> 400]
        ELSE IF existing.ret # {} THEN [db |-> db, status |-> 400]
        ELSE IF ~result.ok THEN [db |-> db, status |-> 400]
        ELSE IF result.ret = 0 THEN [db |-> result.db, status |-> 404]
        ELSE [db |-> result.db, status |-> 200]

UpdateTag(db, id, name) ==
    LET normalizedTagName == trim(toLowerCase(name))
        existing == SqlSelectOtherTag(db, normalizedTagName, id)
        result == SqlUpdateTag(db, normalizedTagName, id)
    IN  IF trim(name) = <<>> THEN [db |-> db, status |-> 400]
        ELSE IF existing.ret # {} THEN [db |-> db, status |-> 400]
        ELSE IF ~result.ok THEN [db |-> db, status |-> 400]
        ELSE IF result.ret = 0 THEN [db |-> result.db, status |-> 404]
        ELSE [db |-> result.db, status |-> 200]

\* A name no category and no tag carries.
FreshName == <<"N","e","w">>

\* The response is not found and no table changed.
NotFound(r) == r.status = 404 /\ Tables(r.db) = Tables(DB)

\* C20: every dashboard operation on an id that no row has (update and
\* delete of a post, approval, unapproval and deletion of a comment, update
\* and delete of a category, update and delete of a tag), its body being
\* valid otherwise, is answered 404 and changes no table.
C20_MissingIdNotFound ==
    /\ \A id \in PostIds :
           (\A p \in Posts : p.id # id) =>
               /\ \A req \in BlogRequests : NotFound(UpdatePost(DB, id, req))
               /\ NotFound(DeletePost(DB, id, 0))
    /\ \A id \in CommentIds :
           (\A c \in Comments : c.id # id) =>
               /\ NotFound(ModerateComment(DB, id, "approve"))
               /\ NotFound(ModerateComment(DB, id, "unapprove"))
               /\ NotFound(DeleteComment(DB, id))
    /\ \A id \in CategoryIds :
           (\A c \in Categories : c.id # id) =>
               /\ NotFound(UpdateCategory(DB, id, FreshName))
               /\ NotFound(DeleteCategory(DB, id))
    /\ \A id \in TagIds :
           (\A t \in Tags : t.id # id) =>
               /\ NotFound(UpdateTag(DB, id, FreshName))
               /\ NotFound(DeleteTag(DB, id))

\* The same without the update of a post: what the other operations do.
C20_OtherOperations ==
    /\ \A id \in PostIds :
           (\A p \in Posts : p.id # id) => NotFound(DeletePost(DB, id, 0))
    /\ \A id \in CommentIds :
           (\A c \in Comments : c.id # id) =>
               /\ NotFound(ModerateComment(DB, id, "approve"))
               /\ NotFound(ModerateComment(DB, id, "unapprove"))
               /\ NotFound(DeleteComment(DB, id))
    /\ \A id \in CategoryIds :
           (\A c \in Categories : c.id # id) =>
               /\ NotFound(UpdateCategory(DB, id, FreshName))
               /\ NotFound(DeleteCategory(DB, id))
    /\ \A id \in TagIds :
           (\A t \in Tags : t.id # id) =>
               /\ NotFound(UpdateTag(DB, id, FreshName))
               /\ NotFound(DeleteTag(DB, id))


-----------------------------------------------------------------------------
(* Comment deletion.                                                       *)

\* Is comment c the comment id or below it in the thread?  A comment is
\* stored after its parent, so the chain of parents ends.
RECURSIVE IsUnder(_, _, _)
IsUnder(comments, c, id) ==
    \/ c.id = id
    \/ /\ c.parent_id # NULL
       /\ \E p \in comments : p.id = c.parent_id /\ IsUnder(comments, p, id)

Subtree(comments, id) == {c \in comments : IsUnder(comments, c, id)}

\* DeleteComment on database d for comment id did what it has to.
DeletesSubtree(d, id) ==
    \E r \in {DeleteComment(d, id)} :
        IF \A c \in d.Comments : c.id # id
        THEN r.status = 404 /\ Tables(r.db) = Tables(d)
        ELSE /\ r.status = 200
             /\ r.db.Comments = d.Comments \ Subtree(d.Comments, id)
             /\ [r.db EXCEPT !.Comments = d.Comments] = d

\* C21: deleting an existing comment removes it and every comment below it
\* in the thread, at any depth, and no other row; deleting a comment id that
\* no comment has is answered 404 and changes nothing.  Checked in every
\* reachable state and on the thread example, whose thread is three deep.
C21_CommentDelete ==
    /\ \A id \in CommentIds : DeletesSubtree(DB, id)
    /\ \A id \in 1..5 : DeletesSubtree(ThreadExample, id)
    /\ {c.id : c \in DeleteComment(ThreadExample, 2).db.Comments} = {1, 3}

\* A comment was deleted and its reply went with it.
C21_Witness ==
    /\ last.op = "deleteComment" /\ last.status = 200
    /\ last.removed = 2


-----------------------------------------------------------------------------
(* The session check in front of the dashboard.                            *)

\* validateSessionAndRole(role) of the authorization package: without a
\* logged-in session the request is answered 401, with a session of another
\* role than the one asked for 403, and the handler runs otherwise.
\* Faulty variant: the role of the session is not looked at.
validateSession(role, viewer) ==
    IF ~LoggedIn(viewer) THEN [next |-> FALSE, status |-> 401]
    ELSE [next |-> TRUE, status |-> 200]

validateSessionAndRole(role, viewer) ==
    IF ~LoggedIn(viewer) THEN [next |-> FALSE, status |-> 401]
    ELSE IF role # "any" /\ viewer.role # role
    THEN [next |-> FALSE, status |-> 403]
    ELSE [next |-> TRUE, status |-> 200]

\* server.use('/dashboard', dashboardLimiter,
\*            validateSessionAndRole('SuperAdmin'), dashboardRouter):
\* r is what the handler of the route does when it runs.
Dashboard(viewer, op, r) ==
    \E g \in {validateSessionAndRole("SuperAdmin", viewer)} :
        /\ IF g.next
           THEN /\ InBounds(r.db) /\ Install(r.db)
                /\ last' = [op |-> op, status |-> r.status, viewer |-> viewer]
           ELSE /\ TablesUnchanged
                /\ last' = [op |-> op, status |-> g.status, viewer |-> viewer]
        /\ UNCHANGED inflight

\* router.post('/post/:slug/comment', validateSessionAndRole("any"), ...)
GuardedAddCommentReq(viewer, c) ==
    \E g \in {validateSessionAndRole("any", viewer)},
       r \in {AddComment(DB, c.slug, c.content, c.parent_id, viewer.username)} :
        /\ IF g.next
           THEN /\ InBounds(r.db) /\ Install(r.db)
                /\ last' = [op |-> "addComment", status |-> r.status,
                            viewer |-> viewer]
           ELSE /\ TablesUnchanged
                /\ last' = [op |-> "addComment", status |-> g.status,
                            viewer |-> viewer]
        /\ UNCHANGED inflight

GuardRequests == {BlogRequest}

GuardComments == {[slug |-> Hi, content |-> <<"c">>, parent_id |-> <<>>]}

\* The sessions of the requests: none, a SuperAdmin, another user.
GuardViewers ==
    {Anonymous, [username |-> "alice", role |-> "SuperAdmin"],
     [username |-> "bob", role |-> "NormalUser"]}

NextGuard ==
    \/ \E v \in GuardViewers, req \in GuardRequests :
           Dashboard(v, "createPost", CreatePost(DB, req, v.username))
    \/ \E v \in GuardViewers, id \in 1..MaxPostId, req \in GuardRequests :
           Dashboard(v, "updatePost", UpdatePost(DB, id, req))
    \/ \E v \in GuardViewers, id \in 1..MaxPostId :
           Dashboard(v, "deletePost", DeletePost(DB, id, 0))
    \/ \E v \in GuardViewers, id \in 1..MaxCommentId, a \in {"approve", "unapprove"} :
           Dashboard(v, "moderateComment", ModerateComment(DB, id, a))
    \/ \E v \in GuardViewers, id \in 1..MaxCommentId :
           Dashboard(v, "deleteComment", DeleteComment(DB, id))
    \/ \E v \in GuardViewers :
           Dashboard(v, "updateCategory", UpdateCategory(DB, 2, FreshName))
    \/ \E v \in GuardViewers :
           Dashboard(v, "deleteCategory", DeleteCategory(DB, 2))
    \/ \E v \in GuardViewers :
           Dashboard(v, "updateTag", UpdateTag(DB, 7, FreshName))
    \/ \E v \in GuardViewers :
           Dashboard(v, "deleteTag", DeleteTag(DB, 7))
    \/ \E v \in GuardViewers, c \in GuardComments : GuardedAddCommentReq(v, c)

SpecGuard == Init /\ [][NextGuard]_vars

\* The tables only the dashboard writes, and the approval of each comment.
AdminData ==
    <<Posts, Categories, Tags, Post_Categories, Post_Tags,
      {<<c.id, c.is_approved>> : c \in Comments}>>

\* The same after a step, a comment removed or added apart: whatever a
\* comment that is there before and after the step has as approval.
ApprovalChanged ==
    \E c \in Comments, d \in Comments' :
        c.id = d.id /\ c.is_approved # d.is_approved

\* C22: a request to a dashboard route whose session is not that of a
\* logged-in SuperAdmin is answered 401 or 403 and the handler does not run:
\* no table changes; and a step that changes Posts, Categories, Tags,
\* Post_Categories, Post_Tags or the approval of a comment is a dashboard
\* request of a SuperAdmin session.
C22_DashboardGuard ==
    [][/\ (last'.op # "addComment" /\ ~IsSuperAdmin(last'.viewer)) =>
              /\ last'.status \in {401, 403}
              /\ TablesUnchanged
       /\ (\/ <<Posts, Categories, Tags, Post_Categories, Post_Tags>>'
                 # <<Posts, Categories, Tags, Post_Categories, Post_Tags>>
           \/ ApprovalChanged) =>
              last'.op # "addComment" /\ IsSuperAdmin(last'.viewer)]_vars

\* bob, logged in without the SuperAdmin role, asked to approve a stored
\* pending comment and was refused.
C22_Witness ==
    /\ last.op = "moderateComment" /\ last.status = 403
    /\ last.viewer = [username |-> "bob", role |-> "NormalUser"]
    /\ \E c \in Comments : ~c.is_approved


-----------------------------------------------------------------------------
(* What a successful post write leaves.                                    *)

\* The owner of post id in database d.
OwnerOf(d, id) == {p.UserName : p \in {x \in d.Posts : x.id = id}}

\* C23: a successful create answers with the id of a new post, which is
\* owned by the session's user, is linked to exactly the category ids the
\* request resolves to and to exactly the tags of the normalized names it
\* names; a successful update leaves the post linked to exactly the
\* submitted categories and tags, with its id and owner as before.
C23_PostWriteResult ==
    \A req \in PostRequests :
        /\ \E r \in {CreatePost(DB, req, "bob")} :
               r.status = 200 =>
                   /\ \A p \in Posts : p.id # r.id
                   /\ OwnerOf(r.db, r.id) = {"bob"}
                   /\ CompletePost(r.db, r.id, req)
        /\ \A id \in PostIds :
               \E r \in {UpdatePost(DB, id, req)} :
                   r.status = 200 =>
                       /\ \E p \in Posts : p.id = id
                       /\ {p.id : p \in r.db.Posts} = {p.id : p \in Posts}
                       /\ OwnerOf(r.db, id) = OwnerOf(DB, id)
                       /\ CompletePost(r.db, id, req)

\* The only post ever created was updated with no tags: the tag js that an
\* earlier write of this post created is stored, and the link to it is gone.
C23_Witness ==
    /\ last.op = "updatePost" /\ last.status = 200 /\ last.id = 1
    /\ posts_id_seq = 1
    /\ \E t \in Tags : t.name = <<"j","s">>
    /\ Post_Tags = {}
    /\ \E l \in Post_Categories : l[1] = 1


-----------------------------------------------------------------------------
(* Category create and update, statement by statement.  Both handlers send *)
(* a SELECT and then an INSERT or UPDATE on the pool, outside any          *)
(* transaction; the statements of other requests run between them.  A      *)
(* request in flight is [op, id, name, pc, status].                        *)

\* SELECT id FROM categories WHERE LOWER(name) = LOWER($1)
SqlSelectCategoryByName(db, name) ==
    Ok(db, {c.id : c \in {x \in db.Categories :
                             toLowerCase(x.name) = toLowerCase(name)}})

\* INSERT INTO categories (name, description) VALUES ($1, $2); name is
\* UNIQUE, compared as it is written.
SqlInsertCategory(db, name) ==
    LET id == db.categories_id_seq + 1
        d1 == [db EXCEPT !.categories_id_seq = id]
    IN  IF \E c \in db.Categories : c.name = name
        THEN Err(d1)
        ELSE Ok([d1 EXCEPT !.Categories = @ \cup {[id |-> id, name |-> name]}], id)

NewCategoryRequest(op, id, name) ==
    [op |-> op, id |-> id, name |-> name, pc |-> "validate", status |-> 0]

\* if (!name || !name.trim())
CategoryValidate(c) ==
    IF trim(c.name) = <<>> THEN [c EXCEPT !.pc = "done", !.status = 400]
    ELSE [c EXCEPT !.pc = "select"]

\* The SELECT for another category of that name, and the 400 when one is
\* found.
CategorySelect(db, c) ==
    LET existing == IF c.op = "createCategory"
                    THEN SqlSelectCategoryByName(db, trim(c.name))
                    ELSE SqlSelectOtherCategory(db, trim(c.name), c.id)
    IN  IF existing.ret # {} THEN [c EXCEPT !.pc = "done", !.status = 400]
        ELSE [c EXCEPT !.pc = "write"]

\* The INSERT or UPDATE and the response: [db, c].  A unique violation
\* (23505) is answered 400, an UPDATE of no row 404.
CategoryWrite(db, c) ==
    LET result == IF c.op = "createCategory"
                  THEN SqlInsertCategory(db, trim(c.name))
                  ELSE SqlUpdateCategory(db, trim(c.name), c.id)
    IN  [db |-> result.db,
         c |-> [c EXCEPT !.pc = "done",
                         !.status = IF ~result.ok THEN 400
                                    ELSE IF c.op = "updateCategory" /\ result.ret = 0
                                    THEN 404
                                    ELSE 200]]

\* The handler run from the request in flight c to its response with no
\* other request in between: [db, c].
RECURSIVE RunCategory(_, _)
RunCategory(db, c) ==
    CASE c.pc = "validate" -> RunCategory(db, CategoryValidate(c))
      [] c.pc = "select" -> RunCategory(db, CategorySelect(db, c))
      [] c.pc = "write" -> CategoryWrite(db, c)
      [] OTHER -> [db |-> db, c |-> c]

\* router.post('/api/categories') as one request: [db, status].
CreateCategory(db, name) ==
    LET r == RunCategory(db, NewCategoryRequest("createCategory", NULL, name))
    IN  [db |-> r.db, status |-> r.c.status]

\* The names of the category requests: a new name in two spellings, a blank
\* one, and the name of a default category in another spelling.
CategoryNames ==
    { <<"N","e","w">>, <<"n","e","w"," ">>, <<" ">>,
      <<"o","p","i","n","i","o","n">> }

\* The category requests: creations, and updates of a default category, of
\* the first category created and of an id no category has.
CategoryRequests ==
    {NewCategoryRequest("createCategory", NULL, n) : n \in CategoryNames}
        \cup {NewCategoryRequest("updateCategory", id, n) :
                 id \in {2, Cardinality(DefaultCategories) + 1,
                         Cardinality(DefaultCategories) + MaxNewCategories + 1},
                 n \in CategoryNames}

CategoryResponded(c) ==
    last' = [op |-> c.op, status |-> c.status, id |-> c.id, message |-> ""]

\* The request arrives, its name is validated and its SELECT is answered.
CategoryArriveStep(c) ==
    /\ Cardinality(inflight) < MaxCategoryRequests
    /\ \E v \in {CategoryValidate(c)} :
           \E x \in {IF v.pc = "done" THEN v ELSE CategorySelect(DB, v)} :
               IF x.pc = "done"
               THEN CategoryResponded(x) /\ UNCHANGED inflight
               ELSE inflight' = inflight \cup {x} /\ UNCHANGED last
    /\ TablesUnchanged

\* The INSERT or UPDATE is answered and the response is sent.
CategoryWriteStep(c) ==
    /\ c.pc = "write"
    /\ \E r \in {CategoryWrite(DB, c)} :
           /\ InBounds(r.db) /\ Install(r.db)
           /\ inflight' = inflight \ {c}
           /\ CategoryResponded(r.c)

NextCategories ==
    \/ \E c \in CategoryRequests : CategoryArriveStep(c)
    \/ \E c \in inflight : CategoryWriteStep(c)

SpecCategories == Init /\ [][NextCategories]_vars

\* Is the trimmed name, ignoring case, the name of another category than id?
CategoryNameTaken(name, id) ==
    \E c \in Categories :
        c.id # id /\ toLowerCase(c.name) = toLowerCase(trim(name))

\* C24: whatever the order of the statements of category create and update
\* requests, no two categories have names that are equal ignoring case; and
\* a create or update whose trimmed name is, ignoring case, the name of
\* another category is answered 400 and changes nothing.
C24_CategoryNamesUnique ==
    /\ \A c, d \in Categories :
           toLowerCase(c.name) = toLowerCase(d.name) => c.id = d.id
    /\ \A n \in CategoryNames :
           /\ CategoryNameTaken(n, NULL) =>
                  \E r \in {CreateCategory(DB, n)} :
                      r.status = 400 /\ Tables(r.db) = Tables(DB)
           /\ \A id \in {c.id : c \in Categories} :
                  CategoryNameTaken(n, id) =>
                      \E r \in {UpdateCategory(DB, id, n)} :
                          r.status = 400 /\ Tables(r.db) = Tables(DB)


-----------------------------------------------------------------------------
(* Tag names.                                                              *)

\* router.post('/api/tags'): [db, status].
CreateTag(db, name) ==
    LET normalizedTagName == trim(toLowerCase(name))
        existing == SqlSelectTag(db, normalizedTagName)
        result == SqlInsertTag(db, normalizedTagName)
    IN  IF trim(name) = <<>> THEN [db |-> db, status |-> 400]
        ELSE IF existing.ret # {} THEN [db |-> db, status |-> 400]
        ELSE IF ~result.ok THEN [db |-> result.db, status |-> 400]
        ELSE [db |-> result.db, status |-> 200]

\* The names of the tag requests: js in two spellings, a blank name, and the
\* name of a default tag in capitals.
TagNames ==
    { <<"J","S">>, <<" ","j","s"," ">>, <<" ">>, <<"N","o","d","e","J","S">> }

\* Post requests whose tags are not written in their normal form.
TagNameRequests ==
    {[BaseRequest EXCEPT !.tags = Payload("json", << TagText(n) >>)] :
         n \in {<<"J","s">>, <<"W","e","b"," ">>}}

\* POST /dashboard/api/tags
CreateTagReq(name) ==
    \E r \in {CreateTag(DB, name)} :
        /\ InBounds(r.db) /\ Install(r.db)
        /\ last' = [op |-> "createTag", status |-> r.status, id |-> NULL,
                    message |-> ""]
        /\ UNCHANGED inflight

\* PUT /dashboard/api/tags/:id
UpdateTagReq(id, name) ==
    \E r \in {UpdateTag(DB, id, name)} :
        /\ Install(r.db)
        /\ last' = [op |-> "updateTag", status |-> r.status, id |-> id,
                    message |-> ""]
        /\ UNCHANGED inflight

\* DELETE /dashboard/api/tags/:id, with no other request in between.
DeleteTagReq(id) ==
    \E r \in {DeleteTag(DB, id)} :
        /\ Install(r.db)
        /\ last' = [op |-> "deleteTag", status |-> r.status, id |-> id,
                    message |-> ""]
        /\ UNCHANGED inflight

NextTagNames ==
    \/ \E n \in TagNames : CreateTagReq(n)
    \/ \E id \in {1, 2, Cardinality(DefaultTags) + 1}, n \in TagNames :
           UpdateTagReq(id, n)
    \/ \E id \in {1, Cardinality(DefaultTags) + 1} : DeleteTagReq(id)
    \/ \E req \in TagNameRequests : CreatePostReq(req, "alice")
    \/ \E req \in TagNameRequests : UpdatePostReq(1, req)

SpecTagNames == Init /\ [][NextTagNames]_vars

\* No capital letter, and no whitespace first or last.
NormalName(name) ==
    /\ \A i \in DOMAIN name : name[i] \notin UpperSet
    /\ name # <<>> => name[1] \notin Whitespace /\ name[Len(name)] \notin Whitespace

\* C25: after any sequence of tag creations, updates and deletions and of
\* post creations and updates, every tag name is lowercase with no
\* whitespace first or last, and no two tags have the same name.
C25_TagNamesNormal ==
    /\ \A t \in Tags : NormalName(t.name)
    /\ \A t, u \in Tags : t.name = u.name => t.id = u.id

\* The default tag javascript was renamed js by an update; every name the
\* requests give for js is written with capitals or blanks.
C25_Witness ==
    /\ last.op = "updateTag" /\ last.status = 200 /\ last.id = 1
    /\ \E t \in Tags : t.id = 1 /\ t.name = <<"j","s">>


-----------------------------------------------------------------------------
(* Category deletion, statement by statement.  router.delete(              *)
(* '/api/categories/:id') sends its COUNT and its DELETE on the pool,      *)
(* outside any transaction; post writes commit between the two.  A request *)
(* in flight is [id, pc, count, status].                                   *)

NewCategoryDelete(id) == [id |-> id, pc |-> "count", count |-> 0, status |-> 0]

\* SELECT COUNT(*) ...; if (parseInt(postCount.rows[0].count) > 0) 400
CategoryDeleteCount(db, c) ==
    LET postCount == SqlCountPostCategories(db, c.id)
    IN  IF postCount.ret > 0
        THEN [c EXCEPT !.count = postCount.ret, !.pc = "done", !.status = 400]
        ELSE [c EXCEPT !.pc = "delete"]

\* DELETE FROM categories ...; 404 when no row was deleted: [db, c].
CategoryDeleteRow(db, c) ==
    LET result == SqlDeleteCategory(db, c.id)
    IN  [db |-> result.db,
         c |-> [c EXCEPT !.pc = "done",
                         !.status = IF result.ret = 0 THEN 404 ELSE 200]]

CategoryDeleteResponded(c) ==
    last' = [op |-> "deleteCategory", status |-> c.status, id |-> c.id,
             message |-> "", count |-> c.count]

\* The request arrives and its COUNT is answered.
CategoryDeleteCountStep(id) ==
    /\ Cardinality(inflight) < MaxInFlight
    /\ \E x \in {CategoryDeleteCount(DB, NewCategoryDelete(id))} :
           IF x.pc = "done"
           THEN CategoryDeleteResponded(x) /\ UNCHANGED inflight
           ELSE inflight' = inflight \cup {x} /\ UNCHANGED last
    /\ TablesUnchanged

\* DELETE FROM categories ... is answered and the response is sent.
CategoryDeleteRowStep(c) ==
    /\ c.pc = "delete"
    /\ \E r \in {CategoryDeleteRow(DB, c)} :
           /\ Install(r.db)
           /\ inflight' = inflight \ {c}
           /\ CategoryDeleteResponded(r.c)

NextCategoryDelete ==
    \/ \E req \in BlogRequests : CreatePostReq(req, "alice")
    \/ \E id \in 1..MaxPostId, req \in BlogRequests : UpdatePostReq(id, req)
    \/ \E id \in 1..MaxPostId : DeletePostReq(id, 0)
    \/ \E id \in {1, 2} : CategoryDeleteCountStep(id)
    \/ \E c \in inflight : CategoryDeleteRowStep(c)

SpecCategoryDelete == Init /\ [][NextCategoryDelete]_vars

\* C26: whatever the order in which post writes commit and the statements
\* of category deletions run, every stored post keeps at least one
\* Post_Categories row, and a category is never deleted while a
\* Post_Categories row references it.
C26_CategoryDeleteRace ==
    [][/\ \A p \in Posts' : \E l \in Post_Categories' : l[1] = p.id
       /\ \A c \in Categories :
              c \notin Categories' =>
                  \A l \in Post_Categories : l[2] # c.id]_vars


-----------------------------------------------------------------------------
(* What the post page tells about hidden comments.                         *)

\* The comments hidden from a viewer: pending and written by someone else.
HiddenFrom(viewer) ==
    {c \in Comments : ~c.is_approved /\ c.UserName # viewer.username}

\* The database with the content of comment id replaced.
WithContent(db, id, content) ==
    [db EXCEPT !.Comments =
        {IF c.id = id THEN [c EXCEPT !.content = content] ELSE c : c \in @}]

\* C27: for a viewer who is no SuperAdmin, the comments the post page
\* returns (rows, parent_content, parent_author_name, replyCount) are the
\* same whatever the content of a comment hidden from the viewer is.
C27_HiddenCommentsUndisclosed ==
    \A viewer \in Viewers, slug \in Slugs :
        ~IsSuperAdmin(viewer) =>
            \A h \in HiddenFrom(viewer) :
                GetPost(WithContent(DB, h.id, <<"o","t","h","e","r">>),
                        slug, viewer).comments
                    = GetPost(DB, slug, viewer).comments


-----------------------------------------------------------------------------
(* Tag delete when a statement fails.  Each of the three pool.query calls  *)
(* of the handler may throw; the catch answers 500 and undoes nothing,     *)
(* since the statements run outside any transaction.                       *)

\* catch (err) { res.status(500) } while the statement of c.pc throws:
\* [db, c].
TagDeleteCatch(db, c) ==
    [db |-> db, c |-> [c EXCEPT !.pc = "done", !.status = 500]]

\* The request arrives and its COUNT throws.
TagDeleteCountFailStep(id) ==
    /\ \E r \in {TagDeleteCatch(DB, NewTagDelete(id))} :
           last' = [op |-> "deleteTag", status |-> r.c.status, id |-> id,
                    message |-> "", count |-> 0, existed |-> FALSE,
                    removed |-> 0]
    /\ TablesUnchanged /\ UNCHANGED inflight

\* DELETE FROM Post_Tags ... or DELETE FROM tags ... throws and the
\* response is sent.
TagDeleteFailStep(c) ==
    /\ c.pc \in {"unlink", "delete"}
    /\ \E r \in {TagDeleteCatch(DB, c)} :
           /\ Install(r.db)
           /\ inflight' = inflight \ {c}
           /\ last' = [op |-> "deleteTag", status |-> r.c.status, id |-> c.id,
                       message |-> "", count |-> r.c.count,
                       existed |-> r.c.existed, removed |-> r.c.removed]

NextTagFailures ==
    \/ \E req \in BlogRequests : CreatePostReq(req, "alice")
    \/ \E id \in TagIds : TagDeleteCountStep(id)
    \/ \E id \in TagIds : TagDeleteCountFailStep(id)
    \/ \E c \in inflight : TagDeleteUnlinkStep(c)
    \/ \E c \in inflight : TagDeleteRowStep(c)
    \/ \E c \in inflight : TagDeleteFailStep(c)

SpecTagFailures == Init /\ [][NextTagFailures]_vars

\* The row and the Post_Tags rows of tag id.
TagAndLinks(tags, links, id) ==
    [tag |-> {t \in tags : t.id = id}, links |-> {l \in links : l[2] = id}]

\* C28: when a delete-tag request is answered, either the tag and all its
\* Post_Tags rows are gone, or the request's statements have removed nothing
\* and the answering step leaves the tag and its Post_Tags rows as they
\* were.
C28_TagDeleteAllOrNothing ==
    [][\A c \in inflight :
           c \notin inflight' /\ inflight' \subseteq inflight =>
               \/ TagAndLinks(Tags', Post_Tags', c.id)
                      = [tag |-> {}, links |-> {}]
               \/ /\ c.removed = 0
                  /\ TagAndLinks(Tags', Post_Tags', c.id)
                         = TagAndLinks(Tags, Post_Tags, c.id)]_vars


-----------------------------------------------------------------------------
(* Post transactions side by side.  Every post write runs in a transaction *)
(* of its own client; the default isolation level lets each statement see  *)
(* the rows committed before it and the transaction's own writes.  A       *)
(* transaction in flight is [op, id, name, pc, tag_id, w]: id is the post  *)
(* it writes, name the normalized tag name of its request, pc the statement *)
(* it sends next and w its writes, not committed yet.                      *)

\* The number of post transactions open at the same time.
MaxTransactions == 2

\* The rows a transaction added to and removed from the tables it writes.
Writes(db, v) ==
    [add |-> [Posts |-> v.Posts \ db.Posts, Tags |-> v.Tags \ db.Tags,
              Post_Categories |-> v.Post_Categories \ db.Post_Categories,
              Post_Tags |-> v.Post_Tags \ db.Post_Tags],
     del |-> [Posts |-> db.Posts \ v.Posts, Tags |-> db.Tags \ v.Tags,
              Post_Categories |-> db.Post_Categories \ v.Post_Categories,
              Post_Tags |-> db.Post_Tags \ v.Post_Tags]]

\* What a statement of the transaction with writes w sees.
View(db, w) ==
    [db EXCEPT !.Posts = (@ \ w.del.Posts) \cup w.add.Posts,
               !.Tags = (@ \ w.del.Tags) \cup w.add.Tags,
               !.Post_Categories =
                   (@ \ w.del.Post_Categories) \cup w.add.Post_Categories,
               !.Post_Tags = (@ \ w.del.Post_Tags) \cup w.add.Post_Tags]

\* Values taken from a sequence are taken for every session at once.
WithSequences(db, v) ==
    [db EXCEPT !.posts_id_seq = v.posts_id_seq, !.tags_id_seq = v.tags_id_seq]

\* The statements of a create or update up to the tag loop: [t, id].
PostStatements(db, op, id, req, username) ==
    LET t0 == Begin(db, req.fail)
        parsed == ParseCategories(req.categories)
        slug == Slugify(req.title)
        postResult == Exec(t0, SqlInsertPost(t0.db, req.title, slug, req.content,
                                            StatusOrDraft(req.status), username))
        updated == Exec(t0, SqlUpdatePost(t0.db, id, req.title, slug, req.content,
                                          StatusOrDraft(req.status)))
        noCats == Exec(updated, SqlDeletePostCategories(updated.db, id))
        withCats == AddCategories(noCats, id, parsed.ids)
    IN  IF op = "createPost"
        THEN [t |-> AddCategories(postResult, postResult.ret, parsed.ids),
              id |-> postResult.ret]
        ELSE [t |-> Exec(withCats, SqlDeletePostTags(withCats.db, id)),
              id |-> id]

\* const normalizedTagName = tagName.toLowerCase().trim(), of the one tag
\* of the request.
NormalizedTagName(req) == trim(toLowerCase(req.tags.items[1].text))

\* Complete requests with one tag: two titles, and two spellings of a tag
\* that is not stored and one of a tag that is.
RaceRequests ==
    {[BaseRequest EXCEPT !.title = t, !.tags = Payload("json", << TagText(n) >>)] :
        t \in {<<"H","i">>, <<"Y","o">>},
        n \in {<<"J","S">>, <<" ","j","s">>, <<"n","o","d","e","j","s">>}}

\* The statement waits: a row another open transaction wrote holds the
\* unique slug, or the lock of the post row.
PostStatementsWait(op, id, req) ==
    \E c \in inflight :
        \/ \E p \in c.w.add.Posts : p.slug = Slugify(req.title)
        \/ op = "updatePost" /\ \E p \in c.w.del.Posts : p.id = id

\* The request arrives; BEGIN and the statements up to the tag loop are
\* answered.  A statement that throws leads to the catch block.
TxStartStep(op, id, req) ==
    /\ Cardinality(inflight) < MaxTransactions
    /\ ~PostStatementsWait(op, id, req)
    /\ \E r \in {PostStatements(DB, op, id, req, "alice")} :
           /\ InBounds(r.t.db)
           /\ Install(WithSequences(DB, r.t.db))
           /\ IF r.t.ok
              THEN /\ inflight' = inflight \cup
                          {[op |-> op, id |-> r.id, name |-> NormalizedTagName(req),
                            pc |-> "select", tag_id |-> NULL,
                            w |-> Writes(DB, r.t.db)]}
                   /\ UNCHANGED last
              ELSE /\ UNCHANGED inflight
                   /\ last' = [op |-> op, status |-> 500, id |-> NULL,
                               message |-> ""]

\* SELECT id FROM Tags WHERE name = $1 is answered.
TxSelectTagStep(c) ==
    /\ c.pc = "select"
    /\ \E tagResult \in {SqlSelectTag(View(DB, c.w), c.name)} :
           inflight' = (inflight \ {c}) \cup
               {IF tagResult.ret = {}
                THEN [c EXCEPT !.pc = "insert"]
                ELSE [c EXCEPT !.pc = "link",
                               !.tag_id = CHOOSE x \in tagResult.ret : TRUE]}
    /\ TablesUnchanged /\ UNCHANGED last

\* INSERT INTO Tags (name) VALUES ($1) RETURNING id is answered.  It waits
\* while another open transaction holds a row with the name; once that row
\* is committed the statement fails on the unique name, and the catch block
\* rolls the transaction back and answers 500.
TxInsertTagStep(c) ==
    /\ c.pc = "insert"
    /\ ~\E o \in inflight \ {c} : \E t \in o.w.add.Tags : t.name = c.name
    /\ \E tagResult \in {SqlInsertTag(View(DB, c.w), c.name)} :
           /\ InBounds(tagResult.db)
           /\ Install(WithSequences(DB, tagResult.db))
           /\ IF tagResult.ok
              THEN /\ inflight' = (inflight \ {c}) \cup
                          {[c EXCEPT !.pc = "link", !.tag_id = tagResult.ret,
                                     !.w = Writes(DB, tagResult.db)]}
                   /\ UNCHANGED last
              ELSE /\ inflight' = inflight \ {c}
                   /\ last' = [op |-> c.op, status |-> 500, id |-> NULL,
                               message |-> ""]

\* INSERT INTO Post_Tags ... and COMMIT are answered, and the response is
\* sent.
TxLinkStep(c) ==
    /\ c.pc = "link"
    /\ \E r \in {SqlInsertPostTag(View(DB, c.w), c.id, c.tag_id)} :
           /\ Install(IF r.ok THEN r.db ELSE DB)
           /\ inflight' = inflight \ {c}
           /\ last' = [op |-> c.op, status |-> IF r.ok THEN 200 ELSE 500,
                       id |-> IF r.ok THEN c.id ELSE NULL, message |-> ""]

NextTransactions ==
    \/ \E req \in RaceRequests : TxStartStep("createPost", NULL, req)
    \/ \E id \in 1..MaxPostId, req \in RaceRequests :
           TxStartStep("updatePost", id, req)
    \/ \E c \in inflight : TxSelectTagStep(c)
    \/ \E c \in inflight : TxInsertTagStep(c)
    \/ \E c \in inflight : TxLinkStep(c)

SpecTransactions == Init /\ [][NextTransactions]_vars

\* C29: a post transaction that found no tag with its name commits, whatever
\* other post transaction is open beside it: when it is answered, exactly
\* one tag has the name and the post is linked to it.
C29_GetOrCreateTogether ==
    [][\A c \in inflight :
           (c.pc \in {"insert", "link"} /\ c \notin inflight'
                /\ inflight' \subseteq inflight) =>
               /\ Cardinality({t \in Tags' : t.name = c.name}) = 1
               /\ \E t \in Tags' : t.name = c.name /\ <<c.id, t.id>> \in Post_Tags'
               /\ \E p \in Posts' : p.id = c.id]_vars


-----------------------------------------------------------------------------
(* Moderation as a write.                                                  *)

\* From database d to e the comment id has is_approved = flag and nothing
\* else changed.
OnlyApprovalSet(d, e, id, flag) ==
    /\ [e EXCEPT !.Comments = d.Comments] = d
    /\ {c.id : c \in e.Comments} = {c.id : c \in d.Comments}
    /\ Cardinality(e.Comments) = Cardinality(d.Comments)
    /\ \A c \in d.Comments : \A x \in e.Comments :
           x.id = c.id =>
               IF c.id = id
               THEN x.is_approved = flag /\ [x EXCEPT !.is_approved = c.is_approved] = c
               ELSE x = c

\* C30: approve sets is_approved of the comment to TRUE and unapprove to
\* FALSE, no other comment and no other field changes, the same request
\* sent again succeeds and changes nothing more; any other action is
\* answered 400 and changes nothing.
C30_ModerationFrame ==
    \A id \in CommentIds, action \in {"approve", "unapprove", "hide"} :
        LET r == ModerateComment(DB, id, action)
            again == ModerateComment(r.db, id, action)
        IN  IF action \notin {"approve", "unapprove"}
            THEN r.status = 400 /\ r.db = DB
            ELSE IF \E c \in Comments : c.id = id
            THEN /\ r.status = 200
                 /\ OnlyApprovalSet(DB, r.db, id, action = "approve")
                 /\ again.status = 200 /\ again.db = r.db
            ELSE r.db = DB

\* An approve was answered 200, its comment is approved and another comment
\* is still pending.
C30_Witness ==
    /\ last.op = "moderateComment" /\ last.status = 200
    /\ \E c \in Comments : c.id = last.id /\ c.is_approved
    /\ \E c \in Comments : c.id # last.id /\ ~c.is_approved

=============================================================================
